---- MODULE Spec2Model ----
(***************************************************************************)
(* A model of the findb storage engine (src/src/storage.rs), the part of   *)
(* the statement executor that submits journals to it                      *)
(* (src/src/statement_executor.rs) and the trial-balance report            *)
(* (src/src/functions.rs).                                                 *)
(*                                                                         *)
(* Decimal amounts and rates are integers, calendar dates are the days     *)
(* 1..MaxDate (day 0 stands for every earlier day), Arc<str> are strings.  *)
(* A Result is the pair <<"Ok", value>> or <<"Err", kind>>; an Option is   *)
(* the sequence <<>> (None) or <<x>> (Some(x)).                            *)
(***************************************************************************)
EXTENDS Integers, Sequences, FiniteSets, TLC

(***************************************************************************)
(* Bounds of the model.                                                    *)
(***************************************************************************)
\* Business dates are 1..MaxDate.
MaxDate == 2
\* At most MaxJournals calls of create_journal in a behaviour.
MaxJournals == 3
\* At most MaxTx explicit calls of begin_transaction in a behaviour.
MaxTx == 1
\* At most MaxScripts calls of execute_script in a behaviour.
MaxScripts == 2
\* execute_script runs scripts of at most MaxScriptLen statements.
MaxScriptLen == 2
\* At most MaxNested calls of begin_transaction in a behaviour of the
\* specification of overlapping transactions.
MaxNested == 2
\* Scripts with explicit transactions have at most MaxTxScriptLen statements.
MaxTxScriptLen == 4
\* Such a script starts while at most MaxTxScripts transactions were begun.
MaxTxScripts == 1

Dates == 1..MaxDate

(***************************************************************************)
(* Values the rest of the model is built from.                             *)
(***************************************************************************)
Ok(v) == <<"Ok", v>>
Err(e) == <<"Err", e>>
IsOk(r) == r[1] = "Ok"
IsErr(r) == r[1] = "Err"
Unit == "()"

None == <<>>
Some(x) == <<x>>

\* An empty BTreeMap / HashMap.
EmptyMap == [x \in {} |-> 0]
\* map.insert(k, v)
Put(m, k, v) == [x \in DOMAIN m \cup {k} |-> IF x = k THEN v ELSE m[x]]
\* map.remove(k)
Remove(m, k) == [x \in DOMAIN m \ {k} |-> m[x]]
\* map.get(k).unwrap_or(d)
GetOr(m, k, d) == IF k \in DOMAIN m THEN m[k] ELSE d

\* The elements of a finite set of integers in ascending order: the order in
\* which a BTreeMap range yields its keys.
RECURSIVE Ascending(_)
Ascending(S) ==
    IF S = {} THEN <<>>
    ELSE LET m == CHOOSE x \in S : \A y \in S : x <= y
         IN  <<m>> \o Ascending(S \ {m})

\* The sum of the values of a finite map.
RECURSIVE SumMap(_)
SumMap(f) ==
    IF DOMAIN f = {} THEN 0
    ELSE LET x == CHOOSE x \in DOMAIN f : TRUE
         IN  f[x] + SumMap(Remove(f, x))

(***************************************************************************)
(* LedgerDay: one day bucket of an account.                                *)
(***************************************************************************)
LedgerDay_new ==
    [sum_by_dimension |-> EmptyMap, total |-> 0,
     entries |-> EmptyMap, entry_by_dimension |-> EmptyMap]

LedgerDay_increment_balance(day, dimensions, amount) ==
    [day EXCEPT
        !.total = day.total + amount,
        !.sum_by_dimension =
            [k \in DOMAIN day.sum_by_dimension \cup DOMAIN dimensions |->
                IF k \in DOMAIN dimensions
                THEN LET inner == GetOr(day.sum_by_dimension, k, EmptyMap)
                         value == dimensions[k]
                     IN  Put(inner, value, GetOr(inner, value, 0) + amount)
                ELSE day.sum_by_dimension[k]]]

LedgerDay_add_entry(day, journal_id, amount, dimensions) ==
    LET keys == {<<k, dimensions[k]>> : k \in DOMAIN dimensions}
        inserted ==
            [day EXCEPT
                !.entries = Put(day.entries, journal_id, amount),
                !.entry_by_dimension =
                    [kv \in DOMAIN day.entry_by_dimension \cup keys |->
                        IF kv \in keys
                        THEN Append(GetOr(day.entry_by_dimension, kv, <<>>), journal_id)
                        ELSE day.entry_by_dimension[kv]]]
    IN  LedgerDay_increment_balance(inserted, dimensions, amount)

\* dimension is the pair <<key, value>>.
LedgerDay_get_balance(day, dimension) ==
    GetOr(GetOr(day.sum_by_dimension, dimension[1], EmptyMap), dimension[2], 0)

LedgerDay_get_dimension_values(day, dimension) ==
    IF dimension \in DOMAIN day.sum_by_dimension
    THEN DOMAIN day.sum_by_dimension[dimension]
    ELSE {}

\* The rows <<journal id, amount>> of the day. Without a dimension the code
\* iterates a HashMap, whose order is unspecified: the model takes ascending
\* journal ids.
LedgerDay_get_entries(day, dimension) ==
    IF dimension = None
    THEN LET jids == Ascending(DOMAIN day.entries)
         IN  [i \in 1..Len(jids) |-> <<jids[i], day.entries[jids[i]]>>]
    ELSE LET jids == GetOr(day.entry_by_dimension, dimension[1], <<>>)
         IN  [i \in 1..Len(jids) |-> <<jids[i], day.entries[jids[i]]>>]

(***************************************************************************)
(* LedgerStore: one account. `log` is a history field of the model: the    *)
(* postings handed to add_entry, each with the signed amount it stored.    *)
(* No operation of the model reads it; the properties compare the balances *)
(* the code computes with it.                                              *)
(***************************************************************************)
\* Date::MIN, as the day before every modelled date.
DateMin == 0

Included(d) == [kind |-> "Included", date |-> d]
Excluded(d) == [kind |-> "Excluded", date |-> d]
Unbounded == [kind |-> "Unbounded", date |-> DateMin]

\* Whether date d lies in the BTreeMap range (from, to).
InRange(d, from, to) ==
    /\ CASE from.kind = "Included" -> from.date <= d
         [] from.kind = "Excluded" -> from.date < d
         [] OTHER -> TRUE
    /\ CASE to.kind = "Included" -> d <= to.date
         [] to.kind = "Excluded" -> d < to.date
         [] OTHER -> TRUE

LedgerStore_new(account_type) ==
    [account_type |-> account_type, days |-> EmptyMap, log |-> <<>>]

\* A variant of SignedAmount that stores the raw amount for every type.
SignedAmount_raw(account_type, amount) == amount

\* The sign with which an account of this type stores a raw amount.
SignedAmount(account_type, amount) ==
    IF account_type \in {"Asset", "Expense"} THEN amount ELSE -amount

LedgerStore_add_entry(store, date, journal_id, raw_amount, dimensions) ==
    LET amount == SignedAmount(store.account_type, raw_amount)
        day == GetOr(store.days, date, LedgerDay_new)
        with_day == Put(store.days, date,
                        LedgerDay_add_entry(day, journal_id, amount, dimensions))
        future_days ==
            [d \in DOMAIN with_day |->
                IF d > date
                THEN LedgerDay_increment_balance(with_day[d], dimensions, amount)
                ELSE with_day[d]]
    IN  [store EXCEPT
            !.days = future_days,
            !.log = Append(store.log,
                           [journal_id |-> journal_id, date |-> date,
                            amount |-> amount, dimensions |-> dimensions])]

\* dimension is an Option of a pair <<key, value>>.
LedgerStore_get_balance(store, date, dimension) ==
    LET days == {d \in DOMAIN store.days : d <= date}
    IN  SumMap([d \in days |->
                  IF dimension = None
                  THEN store.days[d].total
                  ELSE LedgerDay_get_balance(store.days[d], dimension[1])])

\* The rows of the days in `days` (a sequence of dates), day after day.
RECURSIVE DayRows(_, _, _)
DayRows(store, days, dimension) ==
    IF days = <<>> THEN <<>>
    ELSE LedgerDay_get_entries(store.days[Head(days)], dimension)
            \o DayRows(store, Tail(days), dimension)

\* The sum of the amounts of the first n rows.
RECURSIVE RowSum(_, _)
RowSum(rows, n) == IF n = 0 THEN 0 ELSE rows[n][2] + RowSum(rows, n - 1)

\* Rows <<journal id, amount, running balance>>.
LedgerStore_get_statement(store, from, to, dimension) ==
    LET balance_date ==
            CASE from.kind = "Included" -> from.date - 1
              [] from.kind = "Excluded" -> from.date
              [] OTHER -> DateMin
        opening == LedgerStore_get_balance(store, balance_date, dimension)
        days == Ascending({d \in DOMAIN store.days : InRange(d, from, to)})
        rows == DayRows(store, days, dimension)
    IN  [i \in 1..Len(rows) |->
            <<rows[i][1], rows[i][2], opening + RowSum(rows, i)>>]

\* self.days.range((Included(from), Included(to))) on a BTreeMap that has a
\* root node panics when from > to; a map that never had a key has no root.
RangePanics(store, from, to) == DOMAIN store.days # {} /\ from > to

Panic(message) == <<"Panic", message>>
IsPanic(r) == r[1] = "Panic"

LedgerStore_get_dimension_values(store, dimension_key, from, to) ==
    UNION {LedgerDay_get_dimension_values(store.days[d], dimension_key) :
            d \in {x \in DOMAIN store.days : from <= x /\ x <= to}}

(***************************************************************************)
(* RateStore: one rate curve, a map from date to value.                    *)
(***************************************************************************)
RateStore_new == [values |-> EmptyMap]

RateStore_add_rate(store, date, value) ==
    [store EXCEPT !.values = Put(store.values, date, value)]

\* get_rate taking the first point of the range instead of the last.
RateStore_get_rate_first(store, date) ==
    LET keys == {d \in DOMAIN store.values : d <= date}
    IN  IF keys = {} THEN Err("NoRateFound")
        ELSE Ok(store.values[CHOOSE d \in keys : \A e \in keys : d <= e])

RateStore_get_rate(store, date) ==
    LET keys == {d \in DOMAIN store.values : d <= date}
    IN  IF keys = {} THEN Err("NoRateFound")
        ELSE Ok(store.values[CHOOSE d \in keys : \A e \in keys : e <= d])

(***************************************************************************)
(* InMemoryStorage. The operations are functions of the storage record     *)
(*   [ledger_accounts, rates, journals, sequence_counter, tx_counter,      *)
(*    snapshots, uuid_counter]                                             *)
(* and return [st |-> the storage afterwards, res |-> the Result].         *)
(* uuid_counter models Uuid::new_v4(): every call yields an id never seen  *)
(* before, here the number of ids handed out so far plus one, so that a    *)
(* journal id also tells the order of creation.                            *)
(***************************************************************************)
InMemoryStorage_new ==
    [ledger_accounts |-> EmptyMap, rates |-> EmptyMap, journals |-> EmptyMap,
     sequence_counter |-> 1, tx_counter |-> 1, snapshots |-> EmptyMap,
     uuid_counter |-> 1]

\* next_sequence reading the counter without advancing it.
next_sequence_load(st) == [st |-> st, res |-> st.sequence_counter]

\* fetch_add(1): the value before the increment is returned.
next_sequence(st) ==
    [st |-> [st EXCEPT !.sequence_counter = st.sequence_counter + 1],
     res |-> st.sequence_counter]

\* account is [id, account_type].
create_account(st, account) ==
    [st |-> [st EXCEPT !.ledger_accounts =
                Put(st.ledger_accounts, account.id,
                    LedgerStore_new(account.account_type))],
     res |-> Ok(Unit)]

\* rate is [id].
create_rate(st, rate) ==
    [st |-> [st EXCEPT !.rates = Put(st.rates, rate.id, RateStore_new)],
     res |-> Ok(Unit)]

\* command is [id, date, rate].
set_rate(st, command) ==
    IF command.id \notin DOMAIN st.rates
    THEN [st |-> st, res |-> Err("RateNotFound")]
    ELSE [st |-> [st EXCEPT !.rates[command.id] =
                    RateStore_add_rate(st.rates[command.id], command.date,
                                       command.rate)],
          res |-> Ok(Unit)]

get_rate(st, id, date) ==
    IF id \notin DOMAIN st.rates
    THEN Err("RateNotFound")
    ELSE RateStore_get_rate(st.rates[id], date)

\* The loop of create_journal over command.ledger_entries, from entry i on:
\* it stops at the first entry whose account is missing and keeps what the
\* entries before it have written.
RECURSIVE post_ledger_entries(_, _, _, _)
post_ledger_entries(ledger_accounts, command, jid, i) ==
    IF i > Len(command.ledger_entries)
    THEN [ledger_accounts |-> ledger_accounts, res |-> Ok(Unit)]
    ELSE LET ledger_entry == command.ledger_entries[i]
             account_id == ledger_entry.account_id
             amount == IF ledger_entry.kind = "Debit"
                       THEN ledger_entry.amount
                       ELSE -ledger_entry.amount
         IN  IF account_id \notin DOMAIN ledger_accounts
             THEN [ledger_accounts |-> ledger_accounts,
                   res |-> Err("AccountNotFound")]
             ELSE post_ledger_entries(
                      Put(ledger_accounts, account_id,
                          LedgerStore_add_entry(ledger_accounts[account_id],
                                                command.date, jid, amount,
                                                command.dimensions)),
                      command, jid, i + 1)

\* command is [date, description, amount, dimensions, ledger_entries].
create_journal(st, command) ==
    LET jid == st.uuid_counter
        sequenced == next_sequence(st)
        seq == sequenced.res
        entry == [id |-> jid, sequence |-> seq, date |-> command.date,
                  description |-> command.description,
                  amount |-> command.amount,
                  dimensions |-> command.dimensions]
        posted == post_ledger_entries(st.ledger_accounts, command, jid, 1)
    IN  [st |-> [sequenced.st EXCEPT
                    !.uuid_counter = st.uuid_counter + 1,
                    !.journals = Put(st.journals, jid, entry),
                    !.ledger_accounts = posted.ledger_accounts],
         res |-> posted.res]

get_balance(st, account_id, date, dimension) ==
    IF account_id \notin DOMAIN st.ledger_accounts
    THEN Err("AccountNotFound")
    ELSE Ok(LedgerStore_get_balance(st.ledger_accounts[account_id], date,
                                    dimension))

\* The entries of the account's statement whose journal header exists, as
\* StatementTxn records.
get_statement(st, account_id, from, to, dimension) ==
    IF account_id \notin DOMAIN st.ledger_accounts
    THEN Err("AccountNotFound")
    ELSE LET entries == LedgerStore_get_statement(
                            st.ledger_accounts[account_id], from, to, dimension)
             found == SelectSeq(entries, LAMBDA e : e[1] \in DOMAIN st.journals)
         IN  Ok([i \in 1..Len(found) |->
                    [journal_id |-> found[i][1],
                     date |-> st.journals[found[i][1]].date,
                     description |-> st.journals[found[i][1]].description,
                     amount |-> found[i][2],
                     balance |-> found[i][3]]])

get_dimension_values(st, account_id, dimension_key, from, to) ==
    IF account_id \notin DOMAIN st.ledger_accounts
    THEN Err("AccountNotFound")
    ELSE IF RangePanics(st.ledger_accounts[account_id], from, to)
    THEN Panic("range start is greater than range end in BTreeMap")
    ELSE Ok(LedgerStore_get_dimension_values(
                st.ledger_accounts[account_id], dimension_key, from, to))

\* The pairs (id, account type); the code returns them in id order.
list_accounts(st) ==
    {<<id, st.ledger_accounts[id].account_type>> : id \in DOMAIN st.ledger_accounts}

begin_transaction(st) ==
    LET tx_id == st.tx_counter
        snapshot == [ledger_accounts |-> st.ledger_accounts,
                     rates |-> st.rates,
                     journals |-> st.journals,
                     sequence_value |-> st.sequence_counter]
    IN  [st |-> [st EXCEPT !.tx_counter = st.tx_counter + 1,
                           !.snapshots = Put(st.snapshots, tx_id, snapshot)],
         res |-> Ok(tx_id)]

\* commit_transaction succeeding whether or not the transaction is active.
commit_transaction_unchecked(st, tx_id) ==
    [st |-> [st EXCEPT !.snapshots = Remove(st.snapshots, tx_id)],
     res |-> Ok(Unit)]

commit_transaction(st, tx_id) ==
    IF tx_id \notin DOMAIN st.snapshots
    THEN [st |-> st, res |-> Err("NoActiveTransaction")]
    ELSE [st |-> [st EXCEPT !.snapshots = Remove(st.snapshots, tx_id)],
          res |-> Ok(Unit)]

\* rollback_transaction leaving the journal headers as they are.
rollback_transaction_keeping_journals(st, tx_id) ==
    IF tx_id \notin DOMAIN st.snapshots
    THEN [st |-> st, res |-> Err("NoActiveTransaction")]
    ELSE LET snapshot == st.snapshots[tx_id]
         IN  [st |-> [st EXCEPT
                        !.snapshots = Remove(st.snapshots, tx_id),
                        !.ledger_accounts = snapshot.ledger_accounts,
                        !.rates = snapshot.rates,
                        !.sequence_counter = snapshot.sequence_value],
              res |-> Ok(Unit)]

\* rollback_transaction leaving the sequence counter as it is.
rollback_transaction_keeping_sequence(st, tx_id) ==
    IF tx_id \notin DOMAIN st.snapshots
    THEN [st |-> st, res |-> Err("NoActiveTransaction")]
    ELSE LET snapshot == st.snapshots[tx_id]
         IN  [st |-> [st EXCEPT
                        !.snapshots = Remove(st.snapshots, tx_id),
                        !.ledger_accounts = snapshot.ledger_accounts,
                        !.rates = snapshot.rates,
                        !.journals = snapshot.journals],
              res |-> Ok(Unit)]

rollback_transaction(st, tx_id) ==
    IF tx_id \notin DOMAIN st.snapshots
    THEN [st |-> st, res |-> Err("NoActiveTransaction")]
    ELSE LET snapshot == st.snapshots[tx_id]
         IN  [st |-> [st EXCEPT
                        !.snapshots = Remove(st.snapshots, tx_id),
                        !.ledger_accounts = snapshot.ledger_accounts,
                        !.rates = snapshot.rates,
                        !.journals = snapshot.journals,
                        !.sequence_counter = snapshot.sequence_value],
              res |-> Ok(Unit)]

(***************************************************************************)
(* SqliteStorage: the tables `accounts` and `rates` of the connection, the *)
(* stack of the open savepoints named findb_tx (each the tables as they    *)
(* were when it was opened), tx_counter and active_tx.                     *)
(***************************************************************************)
SqliteStorage_new ==
    [accounts |-> EmptyMap, rates |-> EmptyMap, savepoints |-> <<>>,
     tx_counter |-> 1, active_tx |-> None]

\* The rows of the tables.
Tables(db) == [accounts |-> db.accounts, rates |-> db.rates]

\* INSERT OR REPLACE INTO accounts (id, account_type)
Sqlite_create_account(db, account) ==
    [st |-> [db EXCEPT !.accounts = Put(db.accounts, account.id,
                                        account.account_type)],
     res |-> Ok(Unit)]

Sqlite_create_rate(db, rate) == [st |-> db, res |-> Ok(Unit)]

\* INSERT OR REPLACE INTO rates (id, date, value)
Sqlite_set_rate(db, command) ==
    [st |-> [db EXCEPT !.rates = Put(db.rates, <<command.id, command.date>>,
                                     command.rate)],
     res |-> Ok(Unit)]

\* SELECT value FROM rates WHERE id = ?1 AND date <= ?2
\*   ORDER BY date DESC LIMIT 1
Sqlite_get_rate(db, id, date) ==
    LET rows == {k \in DOMAIN db.rates : k[1] = id /\ k[2] <= date}
    IN  IF rows = {} THEN Err("NoRateFound")
        ELSE Ok(db.rates[CHOOSE k \in rows : \A j \in rows : j[2] <= k[2]])

\* SELECT id, account_type FROM accounts
Sqlite_list_accounts(db) == {<<id, db.accounts[id]>> : id \in DOMAIN db.accounts}

\* SAVEPOINT findb_tx
Sqlite_begin_transaction(db) ==
    [st |-> [db EXCEPT !.savepoints = Append(db.savepoints, Tables(db)),
                       !.tx_counter = db.tx_counter + 1,
                       !.active_tx = Some(db.tx_counter)],
     res |-> Ok(db.tx_counter)]

\* RELEASE SAVEPOINT findb_tx: the innermost savepoint of that name is
\* removed and the rows stay.
Sqlite_commit_transaction(db, tx_id) ==
    IF db.active_tx # Some(tx_id)
    THEN [st |-> db, res |-> Err("NoActiveTransaction")]
    ELSE IF db.savepoints = <<>> THEN [st |-> db, res |-> Err("Other")]
    ELSE [st |-> [db EXCEPT !.savepoints = SubSeq(db.savepoints, 1,
                                                  Len(db.savepoints) - 1),
                            !.active_tx = None],
          res |-> Ok(Unit)]

\* ROLLBACK TO SAVEPOINT findb_tx: the rows are those of the innermost
\* savepoint of that name, which stays open.
Sqlite_rollback_transaction(db, tx_id) ==
    IF db.active_tx # Some(tx_id)
    THEN [st |-> db, res |-> Err("NoActiveTransaction")]
    ELSE IF db.savepoints = <<>> THEN [st |-> db, res |-> Err("Other")]
    ELSE [st |-> [db EXCEPT !.accounts = db.savepoints[Len(db.savepoints)].accounts,
                            !.rates = db.savepoints[Len(db.savepoints)].rates,
                            !.active_tx = None],
          res |-> Ok(Unit)]

(***************************************************************************)
(* ExpressionEvaluator and StatementExecutor, as far as statements reach   *)
(* the storage. A DataValue is [type, value]; an expression is a literal   *)
(* [expr |-> "Literal", value], a rate reference [expr |-> "Rate", id]     *)
(* (WITH RATE id) or a call [expr |-> "Call", name, args] of a function of *)
(* the registry on literal arguments.                                      *)
(***************************************************************************)
Money(x) == [type |-> "Money", value |-> x]
Percentage(x) == [type |-> "Percentage", value |-> x]
String(x) == [type |-> "String", value |-> x]
Literal(v) == [expr |-> "Literal", value |-> v, id |-> "", name |-> "", args |-> <<>>]
Rate(id) == [expr |-> "Rate", value |-> Money(0), id |-> id, name |-> "", args |-> <<>>]
FunctionCall(name, args) ==
    [expr |-> "Call", value |-> Money(0), id |-> "", name |-> name, args |-> args]

\* `storage.f(..)?` wrapped in a DataValue: a storage error becomes the
\* evaluation error.
AsMoney(r) == IF IsOk(r) THEN Ok(Money(r[2])) ELSE r
AsPercentage(r) == IF IsOk(r) THEN Ok(Percentage(r[2])) ELSE r

\* Balance::call on (account id, date, dimension?) and FxRate::call on
\* (rate name, date).
Balance_call(st, args) == AsMoney(get_balance(st, args[1], args[2], args[3]))

FxRate_call(st, args) == AsMoney(get_rate(st, args[1], args[2]))

\* TrialBalance::call: one item per account, with its balance at the date.
\* The balance of a listed account cannot fail.
TrialBalance_call(st, effective_date) ==
    Ok([type |-> "TrialBalance",
        value |-> {[account_id |-> a[1], account_type |-> a[2],
                    balance |-> get_balance(st, a[1], effective_date, None)[2]] :
                        a \in list_accounts(st)}])

\* Statement::call on (account id, from, to, dimension?): the statement
\* between the two dates, both included. The range of the days panics when
\* from is after to.
Statement_call(st, args) ==
    IF args[1] \in DOMAIN st.ledger_accounts
          /\ RangePanics(st.ledger_accounts[args[1]], args[2], args[3])
    THEN Panic("range start is greater than range end in BTreeMap")
    ELSE IF IsErr(get_statement(st, args[1], Included(args[2]),
                                Included(args[3]), args[4]))
    THEN get_statement(st, args[1], Included(args[2]), Included(args[3]),
                       args[4])
    ELSE Ok([type |-> "Statement",
             value |-> get_statement(st, args[1], Included(args[2]),
                                     Included(args[3]), args[4])[2]])

\* AccountCount::call: the number of accounts.
AccountCount_call(st) ==
    Ok([type |-> "Int", value |-> Cardinality(list_accounts(st))])

\* Convert::call on (amount, rate name, date): the amount times the rate.
Convert_call(st, args) ==
    IF IsErr(get_rate(st, args[2], args[3]))
    THEN get_rate(st, args[2], args[3])
    ELSE Ok(Money(args[1] * get_rate(st, args[2], args[3])[2]))

\* The account ids of the model in the order in which the BTreeMap of the
\* accounts yields them.
AccountOrder == <<"bank", "equity">>

\* bal_to - bal_from of an account. The balance of a listed account cannot
\* fail.
balance_change(st, id, from, to) ==
    get_balance(st, id, to, None)[2] - get_balance(st, id, from, None)[2]

\* The ids of the accounts for which the loop of IncomeStatement::call
\* pushes an item, in the order of list_accounts.
income_statement_ids(st, from, to) ==
    SelectSeq(AccountOrder,
              LAMBDA id :
                  /\ id \in DOMAIN st.ledger_accounts
                  /\ st.ledger_accounts[id].account_type \in {"Income", "Expense"}
                  /\ balance_change(st, id, from, to) # 0)

\* total_income and total_expenses after the loop.
income_statement_total(st, from, to, account_type) ==
    SumMap([id \in {a \in DOMAIN st.ledger_accounts :
                       st.ledger_accounts[a].account_type = account_type} |->
               balance_change(st, id, from, to)])

\* A variant of net_income that adds the expenses.
net_income_added(total_income, total_expenses) == total_income + total_expenses

\* Net income = income - expenses
net_income(total_income, total_expenses) == total_income - total_expenses

\* IncomeStatement::call on (from, to): the items of the Income and Expense
\* accounts whose balance changed, then the item NET_INCOME.
IncomeStatement_call(st, from, to) ==
    Ok([type |-> "TrialBalance",
        value |->
            [i \in 1..Len(income_statement_ids(st, from, to)) |->
                [account_id |-> income_statement_ids(st, from, to)[i],
                 account_type |->
                     st.ledger_accounts[income_statement_ids(st, from, to)[i]]
                         .account_type,
                 balance |->
                     balance_change(st, income_statement_ids(st, from, to)[i],
                                    from, to)]]
              \o <<[account_id |-> "NET_INCOME", account_type |-> "Income",
                    balance |->
                        net_income(
                            income_statement_total(st, from, to, "Income"),
                            income_statement_total(st, from, to, "Expense"))]>>])

\* DataValue::Int and DataValue::Null.
IntValue(x) == [type |-> "Int", value |-> x]
NullValue == [type |-> "Null", value |-> 0]

\* A binary expression [op](e1, e2), op being the name of the variant of
\* ast::BinaryExpression.
Binary(op, e1, e2) ==
    [expr |-> "Binary", value |-> Money(0), id |-> "", name |-> op,
     args |-> <<e1, e2>>]

\* i64 `/` and `%`: the quotient rounded towards zero, and what is left.
Abs(x) == IF x < 0 THEN 0 - x ELSE x
TruncDiv(a, b) ==
    IF (a < 0) = (b < 0) THEN Abs(a) \div Abs(b) ELSE 0 - (Abs(a) \div Abs(b))
Rem(a, b) == a - b * TruncDiv(a, b)

\* Decimal `/`: amounts are whole numbers in the model, and a quotient that
\* is not whole is kept as the fraction <<a, b>>.
DecimalDiv(a, b) == IF Rem(a, b) = 0 THEN TruncDiv(a, b) ELSE <<a, b>>

\* The second match of Divide and of Modulo, on operands n1 and n2 with n2
\* not zero.
quotient(op, n1, n2) ==
    CASE n1.type = "Int" /\ n2.type = "Int" ->
            IntValue(IF op = "Divide" THEN TruncDiv(n1.value, n2.value)
                     ELSE Rem(n1.value, n2.value))
      [] n1.type \in {"Int", "Money"} /\ n2.type \in {"Int", "Money"} ->
            Money(IF op = "Divide" THEN DecimalDiv(n1.value, n2.value)
                  ELSE Rem(n1.value, n2.value))
      [] OTHER -> NullValue

\* DataValue::Bool
Bool(b) == [type |-> "Bool", value |-> b]

\* i64::pow and Decimal::powd on a whole exponent that is not negative.
RECURSIVE Pow(_, _)
Pow(x, n) == IF n = 0 THEN 1 ELSE x * Pow(x, n - 1)

\* The pairs of operands whose Add is a concatenation of strings.
Concatenated(n1, n2) ==
    \/ n1.type = "Int" /\ n2.type = "String"
    \/ n1.type = "String" /\ n2.type \in {"Bool", "Int", "String"}

\* The match on the types of Eq, Add, Subtract, Multiply and Exponent. The
\* concatenations of Add and the negative exponents are left out: no
\* expression of the model has them.
arithmetic(op, n1, n2) ==
    CASE op = "Eq" /\ n1.type = "Null" /\ n2.type = "Null" -> Bool(TRUE)
      [] op = "Eq" /\ n1.type = n2.type
                  /\ n1.type \in {"Int", "Money", "Date", "String", "Bool"} ->
            Bool(n1.value = n2.value)
      [] op = "Eq" -> Bool(FALSE)
      [] op \in {"Add", "Subtract", "Multiply"}
            /\ n1.type = "Int" /\ n2.type = "Int" ->
            IntValue(CASE op = "Add" -> n1.value + n2.value
                       [] op = "Subtract" -> n1.value - n2.value
                       [] op = "Multiply" -> n1.value * n2.value)
      [] op \in {"Add", "Subtract", "Multiply"}
            /\ n1.type \in {"Int", "Money"} /\ n2.type \in {"Int", "Money"} ->
            Money(CASE op = "Add" -> n1.value + n2.value
                    [] op = "Subtract" -> n1.value - n2.value
                    [] op = "Multiply" -> n1.value * n2.value)
      [] op = "Add" /\ ~Concatenated(n1, n2) -> NullValue
      [] op \in {"Subtract", "Multiply"} -> NullValue
      [] op = "Exponent" /\ n1.type = "Int" /\ n2.type = "Int"
                        /\ n2.value >= 0 ->
            IntValue(Pow(n1.value, n2.value))
      [] op = "Exponent" /\ n1.type = "Money" /\ n2.type \in {"Int", "Money"}
                        /\ n2.value >= 0 ->
            Money(Pow(n1.value, n2.value))
      [] op = "Exponent" /\ n1.type = "Int" /\ n2.type = "Money"
                        /\ n2.value >= 0 ->
            Money(Pow(n1.value, n2.value))
      [] op = "Exponent" /\ ~(/\ n1.type \in {"Int", "Money"}
                              /\ n2.type \in {"Int", "Money"}) -> NullValue

\* The arms of evaluate_binary_expression that evaluate both operands, n1
\* and n2 being what the evaluation of the operands returned: `?` on each,
\* then, for Divide and Modulo, the check for a zero right operand, then
\* the match on the types.
evaluate_binary_expression(op, n1, n2) ==
    IF IsErr(n1) THEN n1
    ELSE IF IsErr(n2) THEN n2
    ELSE IF op \notin {"Divide", "Modulo"}
    THEN Ok(arithmetic(op, n1[2], n2[2]))
    ELSE IF n2[2].type \in {"Int", "Money"} /\ n2[2].value = 0
    THEN Err("DivideByZero")
    ELSE Ok(quotient(op, n1[2], n2[2]))

\* evaluate_predicate, value being what evaluate_expression returned: a
\* value that is not a Bool is false.
evaluate_predicate(value) ==
    IF IsErr(value) THEN value
    ELSE IF value[2].type = "Bool" THEN Ok(value[2].value)
    ELSE Ok(FALSE)

\* A variant of the And arm that evaluates both operands before it looks
\* at the first.
evaluate_and_eager(c1, c2) ==
    IF IsErr(c1) THEN c1
    ELSE IF IsErr(c2) THEN c2
    ELSE Ok(Bool(c1[2] /\ c2[2]))

\* evaluate_predicate(c1)? && evaluate_predicate(c2)?, c1 and c2 being
\* what evaluate_predicate returns on the operands: the second is looked
\* at only when the first is true.
evaluate_and(c1, c2) ==
    IF IsErr(c1) THEN c1
    ELSE IF ~c1[2] THEN Ok(Bool(FALSE))
    ELSE IF IsErr(c2) THEN c2
    ELSE Ok(Bool(c2[2]))

\* evaluate_predicate(c1)? || evaluate_predicate(c2)?: the second is
\* looked at only when the first is false.
evaluate_or(c1, c2) ==
    IF IsErr(c1) THEN c1
    ELSE IF c1[2] THEN Ok(Bool(TRUE))
    ELSE IF IsErr(c2) THEN c2
    ELSE Ok(Bool(c2[2]))

\* UnaryExpression::Not: !evaluate_predicate(expression)?
evaluate_not(c) == IF IsErr(c) THEN c ELSE Ok(Bool(~c[2]))

\* NOT e
Not(e) ==
    [expr |-> "Not", value |-> Money(0), id |-> "", name |-> "",
     args |-> <<e>>]

\* The variables of an evaluation context: a map from name to DataValue.
\* A bare identifier, a $parameter and a property name.key are expressions
\* [expr, id] and [expr, id, name], id being the variable and name the key.
MapValue(m) == [type |-> "Map", value |-> m]
Identifier(ident) ==
    [expr |-> "Identifier", value |-> Money(0), id |-> ident, name |-> "",
     args |-> <<>>]
Parameter(p) ==
    [expr |-> "Parameter", value |-> Money(0), id |-> p, name |-> "",
     args |-> <<>>]
Property(name, key) ==
    [expr |-> "Property", value |-> Money(0), id |-> name, name |-> key,
     args |-> <<>>]

\* context.get_variable(name)
get_variable(variables, name) ==
    IF name \in DOMAIN variables THEN Some(variables[name]) ELSE None

\* A variant of evaluate_unary_expression in which an unbound identifier
\* yields Null as an unbound parameter does.
evaluate_unary_expression_lenient(variables, expression) ==
    IF get_variable(variables, expression.id) = None THEN Ok(NullValue)
    ELSE Ok(get_variable(variables, expression.id)[1])

\* The Property, Parameter and Identifier arms of evaluate_unary_expression.
evaluate_unary_expression(variables, expression) ==
    CASE expression.expr = "Property" ->
            IF get_variable(variables, expression.id) = None
            THEN Ok(NullValue)
            ELSE IF get_variable(variables, expression.id)[1].type # "Map"
            THEN Ok(NullValue)
            ELSE IF expression.name
                      \notin DOMAIN get_variable(variables, expression.id)[1].value
            THEN Ok(NullValue)
            ELSE Ok(get_variable(variables, expression.id)[1].value[expression.name])
      [] expression.expr = "Parameter" ->
            IF get_variable(variables, expression.id) = None THEN Ok(NullValue)
            ELSE Ok(get_variable(variables, expression.id)[1])
      [] expression.expr = "Identifier" ->
            IF get_variable(variables, expression.id) = None
            THEN Err("UnknownIdentifier")
            ELSE Ok(get_variable(variables, expression.id)[1])

RECURSIVE evaluate_expression(_, _, _)
evaluate_expression(st, effective_date, expression) ==
    CASE expression.expr = "Literal" -> Ok(expression.value)
      [] expression.expr = "Binary" /\ expression.name = "And" ->
            evaluate_and(
                evaluate_predicate(
                    evaluate_expression(st, effective_date, expression.args[1])),
                evaluate_predicate(
                    evaluate_expression(st, effective_date, expression.args[2])))
      [] expression.expr = "Binary" /\ expression.name = "Or" ->
            evaluate_or(
                evaluate_predicate(
                    evaluate_expression(st, effective_date, expression.args[1])),
                evaluate_predicate(
                    evaluate_expression(st, effective_date, expression.args[2])))
      [] expression.expr = "Not" ->
            evaluate_not(
                evaluate_predicate(
                    evaluate_expression(st, effective_date, expression.args[1])))
      [] expression.expr \in {"Identifier", "Parameter", "Property"} ->
            evaluate_unary_expression(EmptyMap, expression)
      [] expression.expr = "Binary" ->
            evaluate_binary_expression(
                expression.name,
                evaluate_expression(st, effective_date, expression.args[1]),
                evaluate_expression(st, effective_date, expression.args[2]))
      [] expression.expr = "Rate" ->
            AsPercentage(get_rate(st, expression.id, effective_date))
      [] expression.name = "balance" -> Balance_call(st, expression.args)
      [] expression.name = "fx_rate" -> FxRate_call(st, expression.args)
      [] expression.name = "trial_balance" ->
            TrialBalance_call(st, expression.args[1])
      [] expression.name = "income_statement" ->
            IncomeStatement_call(st, expression.args[1], expression.args[2])
      [] expression.name = "statement" -> Statement_call(st, expression.args)
      [] expression.name = "account_count" -> AccountCount_call(st)
      [] expression.name = "convert" -> Convert_call(st, expression.args)
      [] OTHER -> Err("UnknownFunction")

\* The ledger entries of operations i.. of a journal; an operation is
\* [kind, account, amount] with amount an Option of an expression.
\* The amount of a ledger entry from the value of its amount expression.
entry_amount(value, journal_amount) ==
    IF IsErr(value) THEN value
    ELSE CASE value[2].type \in {"Money", "Int"} -> Ok(value[2].value)
           [] value[2].type = "Percentage" -> Ok(journal_amount * value[2].value)
           [] OTHER -> Err("InvalidType")

\* entries.push(cmd), the entries after it being `rest`.
push_entry(op, amount, rest) ==
    IF IsErr(amount) THEN amount
    ELSE IF IsErr(rest) THEN rest
    ELSE Ok(<<[kind |-> op.kind, account_id |-> op.account,
               amount |-> amount[2]]>> \o rest[2])

RECURSIVE build_ledger_entries(_, _, _, _, _)
build_ledger_entries(st, effective_date, operations, journal_amount, i) ==
    IF i > Len(operations) THEN Ok(<<>>)
    ELSE push_entry(operations[i],
                    entry_amount(IF operations[i].amount = None
                                 THEN Ok(Money(journal_amount))
                                 ELSE evaluate_expression(st, effective_date,
                                                          operations[i].amount[1]),
                                 journal_amount),
                    build_ledger_entries(st, effective_date, operations,
                                         journal_amount, i + 1))

ExecutionResult_new == [variables |-> EmptyMap, journals_created |-> 0]

\* `self.storage.f(..)?; Ok(result)`: r is what the storage call returned.
Executed(r, result) ==
    IF IsErr(r.res) THEN r ELSE [st |-> r.st, res |-> Ok(result)]

\* journal is [date, amount, description, dimensions, operations], its date,
\* amount, description and dimension values being literals.
\* The command built from the journal and its ledger entries, handed to the
\* storage.
submit_journal(st, journal, entries) ==
    IF IsErr(entries) THEN [st |-> st, res |-> entries]
    ELSE Executed(create_journal(st, [date |-> journal.date,
                                      description |-> journal.description,
                                      amount |-> journal.amount,
                                      dimensions |-> journal.dimensions,
                                      ledger_entries |-> entries[2]]),
                  [ExecutionResult_new EXCEPT !.journals_created = 1])

\* The effective date of the execution context.
ContextDate == MaxDate

\* create_journal without eval_ctx.set_effective_date(date): the operations
\* are evaluated as of the date of the context.
StatementExecutor_create_journal_context_date(st, journal) ==
    submit_journal(st, journal,
                   build_ledger_entries(st, ContextDate, journal.operations,
                                        journal.amount, 1))

StatementExecutor_create_journal(st, journal) ==
    submit_journal(st, journal,
                   build_ledger_entries(st, journal.date, journal.operations,
                                        journal.amount, 1))

StatementExecutor_create_account(st, account) ==
    Executed(create_account(st, account), ExecutionResult_new)

StatementExecutor_create_rate(st, rate) ==
    Executed(create_rate(st, [id |-> rate.id]), ExecutionResult_new)

\* rate is [id, date, rate], date and rate being literals.
StatementExecutor_set_rate(st, rate) ==
    Executed(set_rate(st, [id |-> rate.id, date |-> rate.date,
                           rate |-> rate.rate]),
             ExecutionResult_new)

\* The projections i.. of a GET; get is [elements], each [alias, expression].
\* Of two projections with one alias the later is kept (HashMap::insert).
\* result.variables.insert(key, value), the variables of the projections
\* after it being `rest`.
insert_variable(key, value, rest) ==
    IF ~IsOk(value) THEN value
    ELSE IF ~IsOk(rest) THEN rest
    ELSE IF key \in DOMAIN rest[2] THEN rest
    ELSE Ok(Put(rest[2], key, value[2]))

RECURSIVE get_elements(_, _, _, _)
get_elements(st, effective_date, elements, i) ==
    IF i > Len(elements) THEN Ok(EmptyMap)
    ELSE insert_variable(elements[i].alias,
                         evaluate_expression(st, effective_date,
                                             elements[i].expression),
                         get_elements(st, effective_date, elements, i + 1))

\* A variant of get_result that counts every projection as a journal.
get_result_created(st, r) ==
    IF ~IsOk(r) THEN [st |-> st, res |-> r]
    ELSE [st |-> st,
          res |-> Ok([variables |-> r[2],
                      journals_created |-> Cardinality(DOMAIN r[2])])]

\* The result of a GET whose projections gave the variables r.
get_result(st, r) ==
    IF ~IsOk(r) THEN [st |-> st, res |-> r]
    ELSE [st |-> st, res |-> Ok([ExecutionResult_new EXCEPT !.variables = r[2]])]

StatementExecutor_get(st, effective_date, get) ==
    get_result(st, get_elements(st, effective_date, get.elements, 1))

\* ACCRUE. accrue is [account_id, rate_id, compounding, start_date,
\* end_date, by_dimension, into_journal], into_journal being [date,
\* description, operations]; the dates and the description are expressions.
\* The operators return [st, res, lookups], lookups being the number of
\* storage.get_rate calls made.
DateValue(d) == [type |-> "Date", value |-> d]

\* match value? { DataValue::Date(d) => d, _ => InvalidType }
accrue_date(value) ==
    IF IsErr(value) THEN value
    ELSE IF value[2].type = "Date" THEN Ok(value[2].value)
    ELSE Err("InvalidType")

\* match value? { DataValue::String(s) => s, _ => InvalidType }
accrue_string(value) ==
    IF IsErr(value) THEN value
    ELSE IF value[2].type = "String" THEN Ok(value[2].value)
    ELSE Err("InvalidType")

\* calc_daily_accural_amount without the division of Compounding::Daily.
calc_daily_accural_amount_undivided(rate, pv, compounding) == pv * rate

\* Compounding::Daily divides by 365; the rates of the daily accruals of
\* the model are multiples of 365, which gives whole amounts.
calc_daily_accural_amount(rate, pv, compounding) ==
    CASE compounding = None -> pv * rate
      [] compounding = Some("Continuous") -> pv * rate
      [] compounding = Some("Daily") -> DecimalDiv(pv * rate, 365)

\* The for loop over the dimension values on day dt: the amounts after it.
\* The account exists, so get_balance succeeds.
accrue_day(st, accrue, dimension_values, dt, amounts, rate) ==
    [v \in dimension_values |->
        GetOr(amounts, v, 0)
          + calc_daily_accural_amount(
                rate,
                get_balance(st, accrue.account_id, dt,
                            Some(<<accrue.by_dimension, v>>))[2]
                    + GetOr(amounts, v, 0),
                accrue.compounding)]

RECURSIVE accrue_days(_, _, _, _, _, _, _)

\* `let rate = self.storage.get_rate(&accrue.rate_id, dt)?` has returned
\* rate on day dt.
accrue_rated(st, accrue, dimension_values, dt, end_date, amounts, lookups, rate) ==
    IF IsErr(rate) THEN [res |-> rate, lookups |-> lookups]
    ELSE accrue_days(st, accrue, dimension_values, dt + 1, end_date,
                     accrue_day(st, accrue, dimension_values, dt, amounts,
                                rate[2]),
                     lookups)

\* while dt <= end_date
accrue_days(st, accrue, dimension_values, dt, end_date, amounts, lookups) ==
    IF dt > end_date THEN [res |-> Ok(amounts), lookups |-> lookups]
    ELSE accrue_rated(st, accrue, dimension_values, dt, end_date, amounts,
                      lookups + 1, get_rate(st, accrue.rate_id, dt))

RECURSIVE accrue_journals(_, _, _, _, _, _, _, _)

\* create_journal has returned r for the i-th amount.
accrue_created(r, accrue, effective_date, description, amounts, order, i, created) ==
    IF IsErr(r.res) THEN r
    ELSE accrue_journals(r.st, accrue, effective_date, description, amounts,
                         order, i + 1, created + 1)

\* build_ledger_entries has returned entries for the i-th amount.
accrue_built(st, accrue, effective_date, description, amounts, order, i, created, entries) ==
    IF IsErr(entries) THEN [st |-> st, res |-> entries]
    ELSE accrue_created(
             create_journal(st, [date |-> effective_date,
                                 description |-> description,
                                 amount |-> amounts[order[i]],
                                 dimensions |->
                                     [k \in {accrue.by_dimension} |-> order[i]],
                                 ledger_entries |-> entries[2]]),
             accrue, effective_date, description, amounts, order, i, created)

\* for (dimension_value, amount) in amounts: `order` is the order in which
\* the HashMap yields its keys.
accrue_journals(st, accrue, effective_date, description, amounts, order, i, created) ==
    IF i > Len(order)
    THEN [st |-> st,
          res |-> Ok([ExecutionResult_new EXCEPT !.journals_created = created])]
    ELSE accrue_built(st, accrue, effective_date, description, amounts, order,
                      i, created,
                      build_ledger_entries(st, effective_date,
                                           accrue.into_journal.operations,
                                           amounts[order[i]], 1))

\* The daily loop has ended with `days`.
accrue_accrued(st, accrue, effective_date, description, order, days) ==
    IF IsErr(days.res) THEN [st |-> st, res |-> days.res, lookups |-> days.lookups]
    ELSE [lookups |-> days.lookups] @@
         accrue_journals(st, accrue, effective_date, description, days.res[2],
                         SelectSeq(order, LAMBDA v : v \in DOMAIN days.res[2]),
                         1, 0)

\* get_dimension_values has returned dimension_values.
accrue_valued(st, accrue, start_date, end_date, effective_date, description, order, dimension_values) ==
    IF ~IsOk(dimension_values)
    THEN [st |-> st, res |-> dimension_values, lookups |-> 0]
    ELSE accrue_accrued(st, accrue, effective_date, description, order,
                        accrue_days(st, accrue, dimension_values[2], start_date,
                                    end_date, EmptyMap, 0))

\* The four expressions have been evaluated.
accrue_evaluated(st, accrue, order, start_date, end_date, effective_date, description) ==
    IF IsErr(start_date) THEN [st |-> st, res |-> start_date, lookups |-> 0]
    ELSE IF IsErr(end_date) THEN [st |-> st, res |-> end_date, lookups |-> 0]
    ELSE IF IsErr(effective_date)
    THEN [st |-> st, res |-> effective_date, lookups |-> 0]
    ELSE IF IsErr(description)
    THEN [st |-> st, res |-> description, lookups |-> 0]
    ELSE accrue_valued(st, accrue, start_date[2], end_date[2],
                       effective_date[2], description[2], order,
                       get_dimension_values(st, accrue.account_id,
                                            accrue.by_dimension,
                                            start_date[2], end_date[2]))

StatementExecutor_accrue(st, context_date, accrue, order) ==
    accrue_evaluated(
        st, accrue, order,
        accrue_date(evaluate_expression(st, context_date, accrue.start_date)),
        accrue_date(evaluate_expression(st, context_date, accrue.end_date)),
        accrue_date(evaluate_expression(st, context_date,
                                        accrue.into_journal.date)),
        accrue_string(evaluate_expression(st, context_date,
                                          accrue.into_journal.description)))

\* What a statement returns of r: the storage and the result.
Completed(r) == [st |-> r.st, res |-> r.res]

\* statement is [kind, body]; the body of an ACCRUE is the command and the
\* order in which its amounts are iterated.
StatementExecutor_execute(st, effective_date, statement) ==
    CASE statement.kind = "CreateAccount" ->
            StatementExecutor_create_account(st, statement.body)
      [] statement.kind = "CreateJournal" ->
            StatementExecutor_create_journal(st, statement.body)
      [] statement.kind = "CreateRate" ->
            StatementExecutor_create_rate(st, statement.body)
      [] statement.kind = "Get" ->
            StatementExecutor_get(st, effective_date, statement.body)
      [] statement.kind = "SetRate" ->
            StatementExecutor_set_rate(st, statement.body)
      [] statement.kind = "Accrue" ->
            Completed(StatementExecutor_accrue(st, effective_date,
                                               statement.body.accrue,
                                               statement.body.order))

\* Statements i.. of a script, one after the other, up to the first error.
RECURSIVE execute_statements(_, _, _, _)

\* The result of a statement put before the results of those after it.
push_result(result, rest) ==
    IF IsErr(rest.res) THEN rest
    ELSE [st |-> rest.st, res |-> Ok(<<result>> \o rest.res[2])]

\* Statement i has returned r: the script stops at an error and goes on to
\* statement i + 1 otherwise.
execute_rest(r, effective_date, statements, i) ==
    IF IsErr(r.res) THEN r
    ELSE push_result(r.res[2],
                     execute_statements(r.st, effective_date, statements, i + 1))

execute_statements(st, effective_date, statements, i) ==
    IF i > Len(statements) THEN [st |-> st, res |-> Ok(<<>>)]
    ELSE execute_rest(StatementExecutor_execute(st, effective_date, statements[i]),
                      effective_date, statements, i)

\* The end of the implicit transaction: COMMIT when the statements have
\* succeeded, ROLLBACK at the first error.
end_transaction(run, tx_id) ==
    IF IsOk(run.res)
    THEN [st |-> commit_transaction(run.st, tx_id).st, res |-> run.res]
    ELSE [st |-> rollback_transaction(run.st, tx_id).st, res |-> run.res]

\* The statements inside the transaction that `begun` has begun.
execute_in_transaction(begun, effective_date, statements) ==
    end_transaction(execute_statements(begun.st, effective_date, statements, 1),
                    begun.res[2])

\* execute_script: the statements inside an implicit transaction, which is
\* committed when all succeed and rolled back at the first error.
StatementExecutor_execute_script(st, effective_date, statements) ==
    execute_in_transaction(begin_transaction(st), effective_date, statements)

(***************************************************************************)
(* The state: the fields of InMemoryStorage, and the history variables.    *)
(*   last_call  the last call made, [op, arg, res, before]; the arg of     *)
(*              rollback_transaction also names the fields the rollback    *)
(*              had to restore (those changed since the begin); before is  *)
(*              Some(the maps and the sequence counter to which the call   *)
(*              has to return the storage): those of begin_transaction     *)
(*              after a successful rollback_transaction, those before the  *)
(*              script after a failed execute_script, and None otherwise;  *)
(*   pre_begin  for every active transaction, the maps and the sequence    *)
(*              counter of the storage when it began;                      *)
(*   errors_seen  whether some call has returned an error so far.          *)
(* sqlite is a SqliteStorage, a second backend beside the InMemoryStorage. *)
(***************************************************************************)
VARIABLES ledger_accounts, rates, journals, sequence_counter, tx_counter,
          snapshots, uuid_counter, last_call, pre_begin, errors_seen, sqlite,
          threads

storage_vars == <<ledger_accounts, rates, journals, sequence_counter,
                  tx_counter, snapshots, uuid_counter>>
vars == <<ledger_accounts, rates, journals, sequence_counter, tx_counter,
          snapshots, uuid_counter, last_call, pre_begin, errors_seen, sqlite,
          threads>>

\* The threads of the server that call the storage at the same time, each
\* [pc, arg, acc]: the call the thread is in ("idle" between calls), the
\* argument of the call and what the call holds in its local variables.
ThreadIds == {"t1", "t2"}
Idle == [pc |-> "idle", arg |-> "()", acc |-> "()"]

\* The storage record of the current state.
Storage ==
    [ledger_accounts |-> ledger_accounts, rates |-> rates,
     journals |-> journals, sequence_counter |-> sequence_counter,
     tx_counter |-> tx_counter, snapshots |-> snapshots,
     uuid_counter |-> uuid_counter]

\* The next state holds the storage record st of the InMemoryStorage; the
\* SqliteStorage is another object and stays as it is.
Install(st) ==
    /\ UNCHANGED sqlite
    /\ ledger_accounts' = st.ledger_accounts
    /\ rates' = st.rates
    /\ journals' = st.journals
    /\ sequence_counter' = st.sequence_counter
    /\ tx_counter' = st.tx_counter
    /\ snapshots' = st.snapshots
    /\ uuid_counter' = st.uuid_counter

\* The maps and the sequence counter of a storage record.
Ledger(st) ==
    [ledger_accounts |-> st.ledger_accounts, rates |-> st.rates,
     journals |-> st.journals, sequence_counter |-> st.sequence_counter]

\* The fields in which two ledgers differ.
Changed(a, b) ==
    {f \in {"ledger_accounts", "rates", "journals", "sequence_counter"} :
        a[f] # b[f]}

Call(op, arg, res, before) ==
    [op |-> op, arg |-> arg, res |-> res, before |-> before]

\* The call op(arg) has returned res.
Returned(op, arg, res, before) ==
    /\ last_call' = Call(op, arg, res, before)
    /\ errors_seen' = (errors_seen \/ IsErr(res))
    /\ UNCHANGED threads

(***************************************************************************)
(* The inputs of the model.                                                *)
(***************************************************************************)
AccountIds == {"bank", "equity"}
\* An account id no CREATE ACCOUNT of the model names.
MissingAccount == "nonexistent"
AccountExprs ==
    {[id |-> "bank", account_type |-> "Asset"],
     [id |-> "equity", account_type |-> "Equity"]}

RateIds == {"usd", "gbp"}
\* A rate id no CREATE RATE of the model names.
MissingRate == "eur"
RateValues == {5, 6}
CreateRateCommands == {[id |-> r] : r \in RateIds}
SetRateCommands ==
    {[id |-> r, date |-> d, rate |-> v] :
        r \in RateIds \cup {MissingRate}, d \in Dates, v \in RateValues}

DimensionKey == "region"
DimensionValues == {"north", "south"}
DimensionMaps == {EmptyMap} \cup {[k \in {DimensionKey} |-> v] : v \in DimensionValues}
\* The dimension argument of a read: None or Some(<<key, value>>).
DimensionFilters == {None} \cup {Some(<<DimensionKey, v>>) : v \in DimensionValues}

Debit(a, x) == [kind |-> "Debit", account_id |-> a, amount |-> x]
Credit(a, x) == [kind |-> "Credit", account_id |-> a, amount |-> x]

\* The ledger entries of the journals of the ledger specification, for
\* journal amount x, all of them balanced: a debit and a credit to two
\* accounts, and a debit and a credit to the same account.
LedgerEntryLists(x) ==
    {<<Debit("bank", x), Credit("equity", x)>>,
     <<Debit("bank", x), Credit("bank", x)>>}

JournalCommand(d, x, dims, entries) ==
    [date |-> d, description |-> "j", amount |-> x, dimensions |-> dims,
     ledger_entries |-> entries]

JournalCommands ==
    {JournalCommand(d, 1, dims, entries) :
        d \in Dates, dims \in DimensionMaps, entries \in LedgerEntryLists(1)}

TxIds == 1..MaxTx

(***************************************************************************)
(* Every read of the storage contract, on every input of the model.        *)
(***************************************************************************)
ReadDates == 0..MaxDate
\* The bounds of the statements read: Statement::call passes Included bounds
\* (functions.rs:83); Unbounded stands for a statement from the first or to
\* the last day.
ReadBounds == {Unbounded} \cup {Included(d) : d \in Dates}
\* BTreeMap::range panics on a range whose start lies after its end, and on
\* an empty range excluded at both ends: reads are made on the others.
ValidRange(from, to) ==
    \/ from.kind = "Unbounded"
    \/ to.kind = "Unbounded"
    \/ from.date < to.date
    \/ from.date = to.date /\ ~(from.kind = "Excluded" /\ to.kind = "Excluded")

Observe(st) ==
    [balance |->
        [a \in AccountIds \cup {MissingAccount}, d \in ReadDates, f \in DimensionFilters |->
            get_balance(st, a, d, f)],
     statement |->
        [a \in AccountIds \cup {MissingAccount},
         r \in {x \in ReadBounds \X ReadBounds : ValidRange(x[1], x[2])},
         f \in DimensionFilters |->
            get_statement(st, a, r[1], r[2], f)],
     rate |->
        [r \in RateIds \cup {MissingRate}, d \in ReadDates |-> get_rate(st, r, d)],
     dimension_values |->
        [a \in AccountIds \cup {MissingAccount}, from \in Dates, to \in Dates |->
            get_dimension_values(st, a, DimensionKey, from, to)],
     accounts |-> list_accounts(st)]

(***************************************************************************)
(* The operations of the storage backend, one action each.                 *)
(***************************************************************************)
Init ==
    /\ ledger_accounts = InMemoryStorage_new.ledger_accounts
    /\ rates = InMemoryStorage_new.rates
    /\ journals = InMemoryStorage_new.journals
    /\ sequence_counter = InMemoryStorage_new.sequence_counter
    /\ tx_counter = InMemoryStorage_new.tx_counter
    /\ snapshots = InMemoryStorage_new.snapshots
    /\ uuid_counter = InMemoryStorage_new.uuid_counter
    /\ last_call = Call("new", Unit, Ok(Unit), None)
    /\ pre_begin = EmptyMap
    /\ errors_seen = FALSE
    /\ sqlite = SqliteStorage_new
    /\ threads = [t \in ThreadIds |-> Idle]

CreateAccount(account) ==
    LET r == create_account(Storage, account)
    IN  /\ Install(r.st)
        /\ Returned("create_account", account, r.res, None)
        /\ UNCHANGED pre_begin

CreateRate(rate) ==
    LET r == create_rate(Storage, rate)
    IN  /\ Install(r.st)
        /\ Returned("create_rate", rate, r.res, None)
        /\ UNCHANGED pre_begin

SetRate(command) ==
    LET r == set_rate(Storage, command)
    IN  /\ Install(r.st)
        /\ Returned("set_rate", command, r.res, None)
        /\ UNCHANGED pre_begin

CreateJournal(command) ==
    /\ uuid_counter <= MaxJournals
    /\ LET r == create_journal(Storage, command)
       IN  /\ Install(r.st)
           /\ Returned("create_journal", command, r.res, None)
           /\ UNCHANGED pre_begin

BeginTransaction ==
    /\ tx_counter <= MaxTx
    /\ LET r == begin_transaction(Storage)
       IN  /\ Install(r.st)
           /\ Returned("begin_transaction", Unit, r.res, None)
           /\ pre_begin' = Put(pre_begin, r.res[2],
                               Ledger(Storage))

CommitTransaction(tx_id) ==
    LET r == commit_transaction(Storage, tx_id)
    IN  /\ Install(r.st)
        /\ Returned("commit_transaction", tx_id, r.res, None)
        /\ pre_begin' = Remove(pre_begin, tx_id)

RollbackTransaction(tx_id) ==
    LET r == rollback_transaction(Storage, tx_id)
    IN  /\ Install(r.st)
        /\ Returned("rollback_transaction",
                    [tx_id |-> tx_id,
                     changed |-> IF IsOk(r.res)
                                 THEN Changed(pre_begin[tx_id], Ledger(Storage))
                                 ELSE {}],
                    r.res,
                    IF IsOk(r.res) THEN Some(pre_begin[tx_id]) ELSE None)
        /\ pre_begin' = Remove(pre_begin, tx_id)

\* The journals of the transaction specification: a debit that carries a
\* dimension, followed by a posting to an account that is never created, and
\* a lone debit on the last day.
TxJournalCommands ==
    {JournalCommand(1, 1, [k \in {DimensionKey} |-> "north"],
                    <<Debit("bank", 1), Credit(MissingAccount, 1)>>),
     JournalCommand(MaxDate, 2, EmptyMap, <<Debit("bank", 2)>>)}

TxSetRateCommands ==
    {[id |-> "usd", date |-> 1, rate |-> 5]}

\* All operations of the backend, transactions included.
Next ==
    \/ CreateAccount([id |-> "bank", account_type |-> "Asset"])
    \/ CreateRate([id |-> "usd"])
    \/ \E command \in TxSetRateCommands : SetRate(command)
    \/ \E command \in TxJournalCommands : CreateJournal(command)
    \/ BeginTransaction
    \/ \E tx_id \in TxIds : CommitTransaction(tx_id)
    \/ \E tx_id \in TxIds : RollbackTransaction(tx_id)

Spec == Init /\ [][Next]_vars

\* The ledger alone: accounts and balanced journals of every date and
\* dimension, no transactions.
NextLedger ==
    \/ \E account \in AccountExprs : CreateAccount(account)
    \/ \E command \in JournalCommands : CreateJournal(command)

SpecLedger == Init /\ [][NextLedger]_vars

\* The rate curves alone.
NextRates ==
    \/ \E rate \in CreateRateCommands : CreateRate(rate)
    \/ \E command \in SetRateCommands : SetRate(command)

SpecRates == Init /\ [][NextRates]_vars

\* Overlapping transactions: begin_transaction while another transaction is
\* active, and commit and rollback of transactions that are active, ended
\* or never begun, around writes to the accounts and the journals.
BeginNested ==
    /\ tx_counter <= MaxNested
    /\ LET r == begin_transaction(Storage)
       IN  /\ Install(r.st)
           /\ Returned("begin_transaction", Unit, r.res, None)
           /\ pre_begin' = Put(pre_begin, r.res[2], Ledger(Storage))

NestedTxIds == 1..MaxNested

NextTx ==
    \/ CreateAccount([id |-> "bank", account_type |-> "Asset"])
    \/ CreateJournal(JournalCommand(1, 1, EmptyMap, <<Debit("bank", 1)>>))
    \/ BeginNested
    \/ \E tx_id \in NestedTxIds : CommitTransaction(tx_id)
    \/ \E tx_id \in NestedTxIds : RollbackTransaction(tx_id)

SpecTx == Init /\ [][NextTx]_vars

\* Accounts of every type: each account id can be created with each of the
\* five account types, again and again, between journals that debit one
\* account and credit one.
AccountTypes == {"Asset", "Liability", "Equity", "Income", "Expense"}

TypedAccountExprs ==
    {[id |-> a, account_type |-> t] : a \in AccountIds, t \in AccountTypes}

TypedJournalCommands ==
    {JournalCommand(1, 1, EmptyMap, <<Debit(a, 1), Credit(b, 1)>>) :
        a \in AccountIds, b \in AccountIds}

NextTypes ==
    \/ \E account \in TypedAccountExprs : CreateAccount(account)
    \/ \E command \in TypedJournalCommands : CreateJournal(command)

SpecTypes == Init /\ [][NextTypes]_vars

(***************************************************************************)
(* The statement executor: single statements and whole scripts.            *)
(***************************************************************************)
Statement(kind, body) == [kind |-> kind, body |-> body]
Operation(kind, account, amount) ==
    [kind |-> kind, account |-> account, amount |-> amount]
Journal(d, x, dims, operations) ==
    [date |-> d, amount |-> x, description |-> "j", dimensions |-> dims,
     operations |-> operations]

\* The statements of the scripts: every kind of write; a journal that
\* succeeds when @bank exists and otherwise fails after its header is stored;
\* a journal whose amounts need a rate and whose second account is never
\* created, which fails before or after its first posting; and a GET of a
\* rate, which fails while the rate has no point.
ScriptStatements ==
    {Statement("CreateAccount", [id |-> "bank", account_type |-> "Asset"]),
     Statement("CreateRate", [id |-> "usd"]),
     Statement("SetRate", [id |-> "usd", date |-> 1, rate |-> 5]),
     Statement("CreateJournal",
               Journal(1, 1, [k \in {DimensionKey} |-> "north"],
                       <<Operation("Debit", "bank", None),
                         Operation("Credit", "bank", None)>>)),
     Statement("CreateJournal",
               Journal(MaxDate, 2, EmptyMap,
                       <<Operation("Debit", "bank", Some(Rate("usd"))),
                         Operation("Credit", MissingAccount, Some(Rate("usd")))>>)),
     Statement("Get",
               [elements |-> <<[alias |-> "r",
                                expression |-> FunctionCall("fx_rate", <<"usd", 1>>)]>>])}

Scripts == UNION {[1..n -> ScriptStatements] : n \in 0..MaxScriptLen}

ExecuteScript(statements) ==
    /\ tx_counter <= MaxScripts
    /\ \E r \in {StatementExecutor_execute_script(Storage, ContextDate,
                                                  statements)} :
          /\ r.st.uuid_counter <= MaxJournals + 1
          /\ Install(r.st)
          /\ Returned("execute_script", statements, r.res,
                      IF IsErr(r.res) THEN Some(Ledger(Storage)) ELSE None)
    /\ UNCHANGED pre_begin

NextScript ==
    \/ \E statements \in Scripts : ExecuteScript(statements)

SpecScript == Init /\ [][NextScript]_vars

(***************************************************************************)
(* Scripts with explicit transactions (BEGIN, COMMIT, ROLLBACK), run by    *)
(* execute_script on either backend (storage: Arc<dyn StorageBackend>).    *)
(* The executor remembers the explicit transaction of the script as        *)
(* `explicit`, None or Some(tx_id).                                        *)
(***************************************************************************)
IsSqlite(st) == "active_tx" \in DOMAIN st

Backend_create_account(st, account) ==
    IF IsSqlite(st) THEN Sqlite_create_account(st, account)
    ELSE create_account(st, account)

Backend_get_rate(st, id, date) ==
    IF IsSqlite(st) THEN Sqlite_get_rate(st, id, date) ELSE get_rate(st, id, date)

Backend_begin_transaction(st) ==
    IF IsSqlite(st) THEN Sqlite_begin_transaction(st) ELSE begin_transaction(st)

Backend_commit_transaction(st, tx_id) ==
    IF IsSqlite(st) THEN Sqlite_commit_transaction(st, tx_id)
    ELSE commit_transaction(st, tx_id)

Backend_rollback_transaction(st, tx_id) ==
    IF IsSqlite(st) THEN Sqlite_rollback_transaction(st, tx_id)
    ELSE rollback_transaction(st, tx_id)

\* The rows or maps of a backend that a transaction has to restore.
Contents(st) == IF IsSqlite(st) THEN Tables(st) ELSE Ledger(st)

\* A statement has returned r and leaves the explicit transaction `explicit`.
Leaving(r, explicit) == [st |-> r.st, res |-> r.res, explicit |-> explicit]

\* BEGIN has called begin_transaction, which returned r.
Begun(r, explicit) ==
    IF IsErr(r.res) THEN Leaving(r, explicit)
    ELSE [st |-> r.st, res |-> Ok(ExecutionResult_new),
          explicit |-> Some(r.res[2])]

\* COMMIT or ROLLBACK has called the storage, which returned r.
Ended(r, explicit) ==
    IF IsErr(r.res) THEN Leaving(r, explicit)
    ELSE [st |-> r.st, res |-> Ok(ExecutionResult_new), explicit |-> None]

\* GET fx_rate(id, date) has looked the rate up, which returned r.
RateRead(st, r) ==
    IF IsErr(r) THEN [st |-> st, res |-> r]
    ELSE [st |-> st, res |-> Ok(ExecutionResult_new)]

execute_tx_statement(st, explicit, statement) ==
    CASE statement.kind = "Begin" ->
            Begun(Backend_begin_transaction(st), explicit)
      [] statement.kind = "Commit" ->
            IF explicit = None
            THEN [st |-> st, res |-> Err("NoActiveTransaction"), explicit |-> None]
            ELSE Ended(Backend_commit_transaction(st, explicit[1]), explicit)
      [] statement.kind = "Rollback" ->
            IF explicit = None
            THEN [st |-> st, res |-> Err("NoActiveTransaction"), explicit |-> None]
            ELSE Ended(Backend_rollback_transaction(st, explicit[1]), explicit)
      [] statement.kind = "CreateAccount" ->
            Leaving(Executed(Backend_create_account(st, statement.body),
                             ExecutionResult_new),
                    explicit)
      [] statement.kind = "Get" ->
            Leaving(RateRead(st, Backend_get_rate(st, statement.body.id,
                                                  statement.body.date)),
                    explicit)

RECURSIVE execute_tx_statements(_, _, _, _)

\* Statement i has returned r: the script stops at an error.
execute_tx_rest(r, statements, i) ==
    IF IsErr(r.res) THEN r
    ELSE execute_tx_statements(r.st, r.explicit, statements, i + 1)

execute_tx_statements(st, explicit, statements, i) ==
    IF i > Len(statements)
    THEN [st |-> st, res |-> Ok(Unit), explicit |-> explicit]
    ELSE execute_tx_rest(execute_tx_statement(st, explicit, statements[i]),
                         statements, i)

\* The implicit transaction has been ended by a call that returned r.
Closed(run, r) == [st |-> r.st, res |-> run.res, ended |-> r.res]

end_tx_script(run, tx_id) ==
    IF IsOk(run.res)
    THEN Closed(run, Backend_commit_transaction(run.st, tx_id))
    ELSE Closed(run, Backend_rollback_transaction(run.st, tx_id))

execute_tx_in_transaction(begun, statements) ==
    end_tx_script(execute_tx_statements(begun.st, None, statements, 1),
                  begun.res[2])

\* execute_script on a script with explicit transactions: [st, res, ended],
\* ended being what the COMMIT or ROLLBACK of the implicit transaction
\* returned.
execute_tx_script(st, statements) ==
    execute_tx_in_transaction(Backend_begin_transaction(st), statements)

\* The statements of these scripts: a write, the three transaction
\* statements, and a GET of a rate that has no point, which fails.
TxScriptStatements ==
    {Statement("CreateAccount", [id |-> "bank", account_type |-> "Asset"]),
     Statement("Begin", Unit),
     Statement("Commit", Unit),
     Statement("Rollback", Unit),
     Statement("Get", [id |-> MissingRate, date |-> 1])}

TxScripts == UNION {[1..n -> TxScriptStatements] : n \in 1..MaxTxScriptLen}

ScriptCall(backend, statements, r, before) ==
    Returned("execute_tx_script",
             [backend |-> backend, statements |-> statements, ended |-> r.ended],
             r.res, Some(before))

ExecuteTxScript(statements) ==
    /\ tx_counter <= MaxTxScripts
    /\ \E r \in {execute_tx_script(Storage, statements)} :
          /\ Install(r.st)
          /\ ScriptCall("memory", statements, r, Contents(Storage))
    /\ UNCHANGED pre_begin

SqliteExecuteTxScript(statements) ==
    /\ sqlite.tx_counter <= MaxTxScripts
    /\ \E r \in {execute_tx_script(sqlite, statements)} :
          /\ sqlite' = r.st
          /\ ScriptCall("sqlite", statements, r, Contents(sqlite))
    /\ UNCHANGED <<storage_vars, pre_begin>>

NextTxScript ==
    \/ \E statements \in TxScripts : ExecuteTxScript(statements)
    \/ \E statements \in TxScripts : SqliteExecuteTxScript(statements)

SpecTxScript == Init /\ [][NextTxScript]_vars

(***************************************************************************)
(* ACCRUE statements between the writes they read: accounts, a rate curve  *)
(* and its points, journals with and without the BY dimension.             *)
(***************************************************************************)
\* ACCRUE @bank WITH RATE usd FROM s TO e BY region INTO JOURNAL ..., for
\* every s and e, also e < s.
AccrueCommands ==
    {[account_id |-> "bank", rate_id |-> "usd", compounding |-> None,
      start_date |-> Literal(DateValue(s)), end_date |-> Literal(DateValue(e)),
      by_dimension |-> DimensionKey,
      into_journal |->
          [date |-> Literal(DateValue(MaxDate)),
           description |-> Literal(String("accrual")),
           operations |-> <<Operation("Debit", "bank", None),
                            Operation("Credit", "equity", None)>>]] :
        s \in Dates, e \in Dates}

\* The orders in which a HashMap keyed by dimension value can yield its keys.
AccrueOrders ==
    {order \in [1..Cardinality(DimensionValues) -> DimensionValues] :
        \A v \in DimensionValues : \E i \in DOMAIN order : order[i] = v}

AccrueSetRateCommands == {[id |-> "usd", date |-> d, rate |-> 5] : d \in Dates}

AccrueJournalCommands ==
    {JournalCommand(d, 1, dims, <<Debit("bank", 1), Credit("equity", 1)>>) :
        d \in Dates, dims \in DimensionMaps}

\* A panic unwinds out of the statement and leaves the storage as it is.
Accrue(accrue, order) ==
    /\ uuid_counter <= MaxJournals
    /\ \E r \in {StatementExecutor_accrue(Storage, ContextDate, accrue, order)} :
          /\ Install(r.st)
          /\ Returned("accrue", [accrue |-> accrue, lookups |-> r.lookups],
                      r.res, Some(Ledger(Storage)))
    /\ UNCHANGED pre_begin

NextAccrue ==
    \/ \E account \in AccountExprs : CreateAccount(account)
    \/ CreateRate([id |-> "usd"])
    \/ \E command \in AccrueSetRateCommands : SetRate(command)
    \/ \E command \in AccrueJournalCommands : CreateJournal(command)
    \/ \E accrue \in AccrueCommands : \E order \in AccrueOrders :
          Accrue(accrue, order)

SpecAccrue == Init /\ [][NextAccrue]_vars

(***************************************************************************)
(* Statements with a division or a modulo, run one by one by execute,      *)
(* between the writes that the operands read.                              *)
(***************************************************************************)
BalanceOf(account) == FunctionCall("balance", <<account, MaxDate, None>>)

\* Left operands of every kind of value, and one that reads the storage.
DividendExprs ==
    {Literal(IntValue(7)), Literal(Money(7)), Literal(NullValue),
     Literal(DateValue(1)), Literal(Percentage(7)), BalanceOf("bank")}

\* Right operands: Int 0, Money 0, a value that is not zero, and a balance,
\* which is Money 0 or not as the postings have it.
DivisorExprs ==
    {Literal(IntValue(0)), Literal(Money(0)), Literal(IntValue(2)),
     BalanceOf("equity")}

DivisionExprs ==
    {Binary(op, e1, e2) :
        op \in {"Divide", "Modulo"}, e1 \in DividendExprs, e2 \in DivisorExprs}

\* GET e AS result; CREATE JOURNAL with a division by a literal as the amount
\* of its first operation or a modulo as the amount of its second; ACCRUE
\* into a journal that debits @equity by b / (b / b), b being
\* balance(@equity): the balance itself, as long as that is not zero.
DivisionStatements ==
    {Statement("Get", [elements |-> <<[alias |-> "result", expression |-> e]>>]) :
        e \in DivisionExprs}
    \cup
    {Statement("CreateJournal",
               Journal(1, 1, EmptyMap,
                       <<Operation("Debit", "bank", amounts[1]),
                         Operation("Credit", "equity", amounts[2])>>)) :
        amounts \in {<<Some(Binary("Divide", Literal(IntValue(1)), e2)), None>> :
                        e2 \in DivisorExprs \ {BalanceOf("equity")}}
                \cup {<<None, Some(Binary("Modulo", Literal(Money(7)), e2))>> :
                        e2 \in DivisorExprs}}
    \cup
    {Statement("Accrue",
               [accrue |->
                   [account_id |-> "bank", rate_id |-> "usd",
                    compounding |-> None,
                    start_date |-> Literal(DateValue(1)),
                    end_date |-> Literal(DateValue(MaxDate)),
                    by_dimension |-> DimensionKey,
                    into_journal |->
                       [date |-> Literal(DateValue(MaxDate)),
                        description |-> Literal(String("accrual")),
                        operations |->
                           <<Operation("Debit", "equity",
                                       Some(Binary("Divide", BalanceOf("equity"),
                                                   Binary("Divide",
                                                          BalanceOf("equity"),
                                                          BalanceOf("equity"))))),
                             Operation("Credit", "bank", None)>>]],
                order |-> order]) :
        order \in AccrueOrders}

\* Journals carrying the two values of the dimension on @bank, one of them
\* crediting @equity.
DivisionJournalCommands ==
    {JournalCommand(1, 1, [k \in {DimensionKey} |-> "north"],
                    <<Debit("bank", 1), Credit("equity", 1)>>),
     JournalCommand(1, 1, [k \in {DimensionKey} |-> "south"],
                    <<Debit("bank", 1), Credit("bank", 1)>>)}

Execute(statement) ==
    /\ uuid_counter <= MaxJournals
    /\ \E r \in {StatementExecutor_execute(Storage, ContextDate, statement)} :
          /\ Install(r.st)
          /\ Returned("execute", statement, r.res, Some(Ledger(Storage)))
    /\ UNCHANGED pre_begin

NextDivision ==
    \/ \E account \in AccountExprs : CreateAccount(account)
    \/ CreateRate([id |-> "usd"])
    \/ \E command \in TxSetRateCommands : SetRate(command)
    \/ \E command \in DivisionJournalCommands : CreateJournal(command)
    \/ \E statement \in DivisionStatements : Execute(statement)

SpecDivision == Init /\ [][NextDivision]_vars

(***************************************************************************)
(* Variable lookups of the evaluator, on every context of the model.       *)
(***************************************************************************)
VariableNames == {"x", "m"}
PropertyKeys == {"k", "j"}

\* The values a variable is bound to: a number, Null, a map with the key k
\* and a map without keys.
BoundKinds == {"money", "null", "map", "empty"}
BoundValue(kind) ==
    CASE kind = "money" -> Money(1)
      [] kind = "null" -> NullValue
      [] kind = "map" -> MapValue([key \in {"k"} |-> Money(2)])
      [] kind = "empty" -> MapValue(EmptyMap)

\* Every context: each name unbound or bound to one of the values.
VariableKinds == UNION {[names -> BoundKinds] : names \in SUBSET VariableNames}
QueryVariables(kinds) == [name \in DOMAIN kinds |-> BoundValue(kinds[name])]

LookupExprs ==
    {Identifier(n) : n \in VariableNames}
        \cup {Parameter(n) : n \in VariableNames}
        \cup {Property(n, k) : n \in VariableNames, k \in PropertyKeys}

\* The evaluation of a lookup reads the context alone.
EvaluateLookup(variables, expression) ==
    /\ Returned("evaluate_unary_expression",
                [variables |-> variables, expression |-> expression],
                evaluate_unary_expression(variables, expression), None)
    /\ UNCHANGED <<storage_vars, sqlite, pre_begin>>

NextLookup ==
    \E kinds \in VariableKinds : \E expression \in LookupExprs :
        EvaluateLookup(QueryVariables(kinds), expression)

SpecLookup == Init /\ [][NextLookup]_vars

(***************************************************************************)
(* CREATE JOURNAL with every kind of operation amount.                     *)
(***************************************************************************)
\* The number of journals the statements of this specification create.
MaxRatedJournals == 1

\* The amount of an operation: absent, a Money, an Int, WITH RATE usd, or a
\* String.
AmountKinds == {"none", "money", "int", "rate", "string"}
AmountExpr(kind) ==
    CASE kind = "none" -> None
      [] kind = "money" -> Some(Literal(Money(3)))
      [] kind = "int" -> Some(Literal(IntValue(4)))
      [] kind = "rate" -> Some(Rate("usd"))
      [] kind = "string" -> Some(Literal(String("s")))

\* CREATE JOURNAL d, 2, 'j' DEBIT @bank <k1>, CREDIT @equity <k2>
JournalStatement(d, k1, k2) ==
    Statement("CreateJournal",
              Journal(d, 2, EmptyMap,
                      <<Operation("Debit", "bank", AmountExpr(k1)),
                        Operation("Credit", "equity", AmountExpr(k2))>>))

\* SET RATE usd on every date, with a value that tells the date.
JournalSetRateCommands ==
    {[id |-> "usd", date |-> d, rate |-> 4 + d] : d \in Dates}

ExecuteJournal(d, k1, k2) ==
    /\ uuid_counter <= MaxRatedJournals
    /\ Execute(JournalStatement(d, k1, k2))

\* The accounts and the rate are created once.
NextJournal ==
    \/ \E account \in AccountExprs :
          /\ account.id \notin DOMAIN ledger_accounts
          /\ CreateAccount(account)
    \/ /\ "usd" \notin DOMAIN rates
       /\ CreateRate([id |-> "usd"])
    \/ \E command \in JournalSetRateCommands : SetRate(command)
    \/ \E d \in Dates : \E k1 \in AmountKinds :
       \E k2 \in {"none", "rate", "string"} :
          ExecuteJournal(d, k1, k2)

SpecJournal == Init /\ [][NextJournal]_vars

(***************************************************************************)
(* Calls of several threads on one InMemoryStorage. A call is a sequence   *)
(* of steps, one per acquisition of a lock (or per atomic operation), and  *)
(* the steps of the threads interleave.                                    *)
(***************************************************************************)
\* Thread t goes on to the next step of its call.
StepTo(t, pc, arg, acc) ==
    /\ threads' = [threads EXCEPT ![t] = [pc |-> pc, arg |-> arg, acc |-> acc]]
    /\ UNCHANGED <<last_call, errors_seen>>

\* The call of thread t returns res.
StepReturned(t, op, arg, res) ==
    /\ threads' = [threads EXCEPT ![t] = Idle]
    /\ last_call' = Call(op, arg, res, None)
    /\ errors_seen' = (errors_seen \/ IsErr(res))

\* create_journal up to self.journals.write().unwrap().insert(jid, entry).
JournalInsert(t, command) ==
    /\ threads[t].pc = "idle"
    /\ uuid_counter <= MaxJournals
    /\ Install([create_journal(Storage, command).st EXCEPT
                    !.ledger_accounts = ledger_accounts])
    /\ StepTo(t, "create_journal", command, uuid_counter)
    /\ UNCHANGED pre_begin

\* create_journal from self.ledger_accounts.write() on: the loop over the
\* ledger entries runs under the one write lock.
JournalPost(t) ==
    /\ threads[t].pc = "create_journal"
    /\ \E posted \in {post_ledger_entries(ledger_accounts, threads[t].arg,
                                           threads[t].acc, 1)} :
          /\ Install([Storage EXCEPT !.ledger_accounts = posted.ledger_accounts])
          /\ StepReturned(t, "create_journal", threads[t].arg, posted.res)
    /\ UNCHANGED pre_begin

\* The next account of the loop of TrialBalance::call: list_accounts
\* follows the order of the keys.
next_account(accounts) ==
    IF \E a \in accounts : a[1] = "bank"
    THEN CHOOSE a \in accounts : a[1] = "bank"
    ELSE CHOOSE a \in accounts : TRUE

\* TrialBalance::call: let accounts = self.storage.list_accounts()
TrialBalanceList(t, effective_date) ==
    /\ threads[t].pc = "idle"
    /\ StepTo(t, "trial_balance", effective_date,
              [accounts |-> list_accounts(Storage), result |-> {}])
    /\ UNCHANGED <<storage_vars, sqlite, pre_begin>>

\* TrialBalance::call: one turn of the loop, a get_balance of its own.
TrialBalanceRead(t) ==
    /\ threads[t].pc = "trial_balance"
    /\ threads[t].acc.accounts # {}
    /\ \E a \in {next_account(threads[t].acc.accounts)} :
       \E balance \in {get_balance(Storage, a[1], threads[t].arg, None)} :
          IF IsErr(balance)
          THEN StepReturned(t, "trial_balance", threads[t].arg, balance)
          ELSE StepTo(t, "trial_balance", threads[t].arg,
                      [accounts |-> threads[t].acc.accounts \ {a},
                       result |-> threads[t].acc.result
                                    \cup {[account_id |-> a[1],
                                           account_type |-> a[2],
                                           balance |-> balance[2]]}])
    /\ UNCHANGED <<storage_vars, sqlite, pre_begin>>

\* TrialBalance::call: Ok(DataValue::TrialBalance(result))
TrialBalanceReturn(t) ==
    /\ threads[t].pc = "trial_balance"
    /\ threads[t].acc.accounts = {}
    /\ StepReturned(t, "trial_balance", threads[t].arg,
                    Ok([type |-> "TrialBalance",
                        value |-> threads[t].acc.result]))
    /\ UNCHANGED <<storage_vars, sqlite, pre_begin>>

\* The journal of the threads: a debit of @bank and a credit of @equity.
BalancedJournalCommand ==
    JournalCommand(1, 1, EmptyMap, <<Debit("bank", 1), Credit("equity", 1)>>)

\* The accounts are created once, before the first journal, and every
\* journal is posted to both of them.
NextGet ==
    \/ \E account \in AccountExprs :
          /\ account.id \notin DOMAIN ledger_accounts
          /\ CreateAccount(account)
    \/ \E t \in ThreadIds :
          /\ DOMAIN ledger_accounts = AccountIds
          /\ JournalInsert(t, BalancedJournalCommand)
    \/ \E t \in ThreadIds : JournalPost(t)
    \/ \E t \in ThreadIds : \E d \in Dates : TrialBalanceList(t, d)
    \/ \E t \in ThreadIds : TrialBalanceRead(t)
    \/ \E t \in ThreadIds : TrialBalanceReturn(t)

SpecGet == Init /\ [][NextGet]_vars

(***************************************************************************)
(* rollback_transaction next to the calls of another thread: the snapshot  *)
(* is removed under the snapshots lock, then each map is replaced under    *)
(* its own write lock and the sequence counter is stored.                  *)
(***************************************************************************)
\* self.snapshots.write().unwrap().remove(&tx_id).ok_or(NoActiveTransaction)?
RollbackRemove(t, tx_id) ==
    /\ threads[t].pc = "idle"
    /\ IF tx_id \notin DOMAIN snapshots
       THEN /\ StepReturned(t, "rollback_transaction", tx_id,
                            Err("NoActiveTransaction"))
            /\ UNCHANGED <<storage_vars, sqlite>>
       ELSE /\ Install([Storage EXCEPT !.snapshots = Remove(snapshots, tx_id)])
            /\ StepTo(t, "restore_ledger_accounts", tx_id, snapshots[tx_id])
    /\ UNCHANGED pre_begin

\* *self.ledger_accounts.write().unwrap() = snapshot.ledger_accounts
RollbackLedgerAccounts(t) ==
    /\ threads[t].pc = "restore_ledger_accounts"
    /\ Install([Storage EXCEPT
                    !.ledger_accounts = threads[t].acc.ledger_accounts])
    /\ StepTo(t, "restore_rates", threads[t].arg, threads[t].acc)
    /\ UNCHANGED pre_begin

\* *self.rates.write().unwrap() = snapshot.rates
RollbackRates(t) ==
    /\ threads[t].pc = "restore_rates"
    /\ Install([Storage EXCEPT !.rates = threads[t].acc.rates])
    /\ StepTo(t, "restore_journals", threads[t].arg, threads[t].acc)
    /\ UNCHANGED pre_begin

\* *self.journals.write().unwrap() = snapshot.journals
RollbackJournals(t) ==
    /\ threads[t].pc = "restore_journals"
    /\ Install([Storage EXCEPT !.journals = threads[t].acc.journals])
    /\ StepTo(t, "restore_sequence", threads[t].arg, threads[t].acc)
    /\ UNCHANGED pre_begin

\* self.sequence_counter.store(snapshot.sequence_value, Ordering::SeqCst)
RollbackSequence(t) ==
    /\ threads[t].pc = "restore_sequence"
    /\ Install([Storage EXCEPT
                    !.sequence_counter = threads[t].acc.sequence_value])
    /\ StepReturned(t, "rollback_transaction", threads[t].arg, Ok(Unit))
    /\ UNCHANGED pre_begin

\* A thread that calls create_account and then set_rate, each one call
\* under one lock, and is left in "written" when both have returned.
WriterCreateAccount(t, account, command) ==
    /\ threads[t].pc = "idle"
    /\ Install(create_account(Storage, account).st)
    /\ StepTo(t, "set_rate", command, account)
    /\ UNCHANGED pre_begin

WriterSetRate(t) ==
    /\ threads[t].pc = "set_rate"
    /\ \E r \in {set_rate(Storage, threads[t].arg)} :
          /\ Install(r.st)
          /\ threads' = [threads EXCEPT ![t].pc = "written"]
          /\ last_call' = Call("set_rate", threads[t].arg, r.res, None)
          /\ errors_seen' = (errors_seen \/ IsErr(r.res))
    /\ UNCHANGED pre_begin

\* The rate is created and the one transaction begun before the threads
\* start; the writer starts once the transaction is begun.
NextRollback ==
    \/ /\ tx_counter = 1
       /\ CreateRate([id |-> "usd"])
    \/ /\ tx_counter = 1
       /\ BeginTransaction
    \/ \E t \in ThreadIds : \E tx_id \in TxIds : RollbackRemove(t, tx_id)
    \/ \E t \in ThreadIds : RollbackLedgerAccounts(t)
    \/ \E t \in ThreadIds : RollbackRates(t)
    \/ \E t \in ThreadIds : RollbackJournals(t)
    \/ \E t \in ThreadIds : RollbackSequence(t)
    \/ \E t \in ThreadIds :
          /\ tx_counter > 1
          /\ WriterCreateAccount(t, [id |-> "bank", account_type |-> "Asset"],
                                 [id |-> "usd", date |-> 1, rate |-> 5])
    \/ \E t \in ThreadIds : WriterSetRate(t)

SpecRollback == Init /\ [][NextRollback]_vars

(***************************************************************************)
(* Two threads, each running BEGIN; CREATE ACCOUNT; COMMIT or ROLLBACK on  *)
(* the one InMemoryStorage. Every storage call is taken as one step.       *)
(***************************************************************************)
\* The account a thread creates inside its transaction.
AccountOf(t) ==
    IF t = "t1" THEN [id |-> "bank", account_type |-> "Asset"]
    ELSE [id |-> "equity", account_type |-> "Equity"]

\* begin_transaction does not wait for the transaction of another thread.
ScriptBegin(t) ==
    /\ threads[t].pc = "idle"
    /\ \E r \in {begin_transaction(Storage)} :
          /\ Install(r.st)
          /\ StepTo(t, "begun", r.res[2], "()")
    /\ UNCHANGED pre_begin

ScriptCreateAccount(t) ==
    /\ threads[t].pc = "begun"
    /\ Install(create_account(Storage, AccountOf(t)).st)
    /\ StepTo(t, "written", threads[t].arg, "()")
    /\ UNCHANGED pre_begin

\* The script ends with COMMIT and the thread stays in "committed".
ScriptCommit(t) ==
    /\ threads[t].pc = "written"
    /\ \E r \in {commit_transaction(Storage, threads[t].arg)} :
          /\ Install(r.st)
          /\ threads' = [threads EXCEPT ![t].pc = "committed"]
          /\ last_call' = Call("commit_transaction", threads[t].arg, r.res, None)
          /\ errors_seen' = (errors_seen \/ IsErr(r.res))
    /\ UNCHANGED pre_begin

\* The script ends with ROLLBACK and the thread stays in "rolled_back".
ScriptRollback(t) ==
    /\ threads[t].pc = "written"
    /\ \E r \in {rollback_transaction(Storage, threads[t].arg)} :
          /\ Install(r.st)
          /\ threads' = [threads EXCEPT ![t].pc = "rolled_back"]
          /\ last_call' = Call("rollback_transaction", threads[t].arg, r.res, None)
          /\ errors_seen' = (errors_seen \/ IsErr(r.res))
    /\ UNCHANGED pre_begin

\* A thread starts over with a script of its own.
ScriptDone(t) ==
    /\ threads[t].pc \in {"committed", "rolled_back"}
    /\ tx_counter <= MaxTx + 1
    /\ threads' = [threads EXCEPT ![t] = Idle]
    /\ UNCHANGED <<storage_vars, sqlite, pre_begin, last_call, errors_seen>>

NextToken ==
    \/ \E t \in ThreadIds : ScriptBegin(t)
    \/ \E t \in ThreadIds : ScriptCreateAccount(t)
    \/ \E t \in ThreadIds : ScriptCommit(t)
    \/ \E t \in ThreadIds : ScriptRollback(t)
    \/ \E t \in ThreadIds : ScriptDone(t)

SpecToken == Init /\ [][NextToken]_vars

(***************************************************************************)
(* The mutexes conn and active_tx of SqliteStorage (client and active_tx   *)
(* of PostgresStorage, which takes them in the same places). A thread in   *)
(* "begin_transaction" holds conn and is to lock active_tx; a thread in    *)
(* "commit_transaction" or "rollback_transaction" holds active_tx and is   *)
(* to lock conn. A guard is released when its call returns.                *)
(***************************************************************************)
HoldsConn(t) == threads[t].pc = "begin_transaction"
HoldsActiveTx(t) ==
    threads[t].pc \in {"commit_transaction", "rollback_transaction"}
ConnFree == \A t \in ThreadIds : ~HoldsConn(t)
ActiveTxFree == \A t \in ThreadIds : ~HoldsActiveTx(t)

\* begin_transaction: self.conn.lock(), SAVEPOINT findb_tx and
\* self.tx_counter.fetch_add(1).
SqliteBeginConn(t) ==
    /\ threads[t].pc = "idle"
    /\ ConnFree
    /\ sqlite.tx_counter <= MaxNested
    /\ sqlite' = [Sqlite_begin_transaction(sqlite).st EXCEPT
                    !.active_tx = sqlite.active_tx]
    /\ StepTo(t, "begin_transaction", sqlite.tx_counter, "()")
    /\ UNCHANGED <<storage_vars, pre_begin>>

\* begin_transaction: *self.active_tx.lock().unwrap() = Some(tx_id)
SqliteBeginActiveTx(t) ==
    /\ threads[t].pc = "begin_transaction"
    /\ ActiveTxFree
    /\ sqlite' = [sqlite EXCEPT !.active_tx = Some(threads[t].arg)]
    /\ StepReturned(t, "begin_transaction", "()", Ok(threads[t].arg))
    /\ UNCHANGED <<storage_vars, pre_begin>>

\* commit_transaction and rollback_transaction: self.active_tx.lock() and
\* the comparison with Some(tx_id).
SqliteEndActiveTx(t, op, tx_id) ==
    /\ threads[t].pc = "idle"
    /\ ActiveTxFree
    /\ IF sqlite.active_tx # Some(tx_id)
       THEN StepReturned(t, op, tx_id, Err("NoActiveTransaction"))
       ELSE StepTo(t, op, tx_id, "()")
    /\ UNCHANGED <<storage_vars, sqlite, pre_begin>>

\* commit_transaction and rollback_transaction: self.conn.lock() and the
\* statement on the savepoint.
SqliteEndConn(t) ==
    /\ HoldsActiveTx(t)
    /\ ConnFree
    /\ \E r \in {IF threads[t].pc = "commit_transaction"
                  THEN Sqlite_commit_transaction(sqlite, threads[t].arg)
                  ELSE Sqlite_rollback_transaction(sqlite, threads[t].arg)} :
          /\ sqlite' = r.st
          /\ StepReturned(t, threads[t].pc, threads[t].arg, r.res)
    /\ UNCHANGED <<storage_vars, pre_begin>>

\* Any other call: self.conn.lock() for the whole call.
SqliteCreateAccount(t, account) ==
    /\ threads[t].pc = "idle"
    /\ ConnFree
    /\ sqlite' = Sqlite_create_account(sqlite, account).st
    /\ StepReturned(t, "create_account", account, Ok(Unit))
    /\ UNCHANGED <<storage_vars, pre_begin>>

NextLocks ==
    \/ \E t \in ThreadIds : SqliteBeginConn(t)
    \/ \E t \in ThreadIds : SqliteBeginActiveTx(t)
    \/ \E t \in ThreadIds : \E tx_id \in 1..MaxNested :
          SqliteEndActiveTx(t, "commit_transaction", tx_id)
    \/ \E t \in ThreadIds : \E tx_id \in 1..MaxNested :
          SqliteEndActiveTx(t, "rollback_transaction", tx_id)
    \/ \E t \in ThreadIds : SqliteEndConn(t)
    \/ \E t \in ThreadIds : \E account \in AccountExprs :
          SqliteCreateAccount(t, account)

SpecLocks == Init /\ [][NextLocks]_vars

(***************************************************************************)
(* The same calls on an InMemoryStorage and on a SqliteStorage, both       *)
(* empty at first. last_call holds the result of the in-memory backend as  *)
(* res and that of the SQLite backend as arg.sqlite.                       *)
(***************************************************************************)
\* Both backends have returned from op(arg).
BothReturned(op, arg, mem, sql) ==
    /\ ledger_accounts' = mem.st.ledger_accounts
    /\ rates' = mem.st.rates
    /\ UNCHANGED <<journals, sequence_counter, tx_counter, snapshots,
                   uuid_counter>>
    /\ sqlite' = sql.st
    /\ last_call' = Call(op, [call |-> arg, sqlite |-> sql.res], mem.res, None)
    /\ errors_seen' = (errors_seen \/ IsErr(mem.res))
    /\ UNCHANGED <<threads, pre_begin>>

BothCreateAccount(account) ==
    BothReturned("both_create_account", account,
                 create_account(Storage, account),
                 Sqlite_create_account(sqlite, account))

BothCreateRate(rate) ==
    BothReturned("both_create_rate", rate,
                 create_rate(Storage, rate), Sqlite_create_rate(sqlite, rate))

BothSetRate(command) ==
    BothReturned("both_set_rate", command,
                 set_rate(Storage, command), Sqlite_set_rate(sqlite, command))

BothGetRate(id, date) ==
    BothReturned("both_get_rate", <<id, date>>,
                 [st |-> Storage, res |-> get_rate(Storage, id, date)],
                 [st |-> sqlite, res |-> Sqlite_get_rate(sqlite, id, date)])

BothListAccounts ==
    BothReturned("both_list_accounts", "()",
                 [st |-> Storage, res |-> Ok(list_accounts(Storage))],
                 [st |-> sqlite, res |-> Ok(Sqlite_list_accounts(sqlite))])

\* One rate that is created at some time and one that never is.
BackendSetRateCommands ==
    {[id |-> r, date |-> d, rate |-> 5] : r \in {"usd", MissingRate}, d \in Dates}

NextBackends ==
    \/ \E account \in AccountExprs : BothCreateAccount(account)
    \/ BothCreateRate([id |-> "usd"])
    \/ \E command \in BackendSetRateCommands : BothSetRate(command)
    \/ \E id \in {"usd", MissingRate} : \E date \in ReadDates :
          BothGetRate(id, date)
    \/ BothListAccounts

SpecBackends == Init /\ [][NextBackends]_vars

(***************************************************************************)
(* ACCRUE over the whole window with every compounding, a rate of 0 or of  *)
(* 365 (36500%, so that the daily accrual is whole) and operations whose   *)
(* amounts are the journal amount or read the ledger.                      *)
(***************************************************************************)
\* The number of journals after which no statement of this specification
\* starts.
MaxAccrualJournals == 3

Compoundings == {None, Some("Daily"), Some("Continuous")}

\* DEBIT @bank [balance(@bank, MaxDate)], CREDIT @equity
AccrualOperations(reading) ==
    <<Operation("Debit", "bank",
                IF reading THEN Some(BalanceOf("bank")) ELSE None),
      Operation("Credit", "equity", None)>>

AccrualCommand(compounding, reading) ==
    [account_id |-> "bank", rate_id |-> "usd", compounding |-> compounding,
     start_date |-> Literal(DateValue(1)),
     end_date |-> Literal(DateValue(MaxDate)),
     by_dimension |-> DimensionKey,
     into_journal |->
         [date |-> Literal(DateValue(MaxDate)),
          description |-> Literal(String("accrual")),
          operations |-> AccrualOperations(reading)]]

AccrualSetRateCommands ==
    {[id |-> "usd", date |-> d, rate |-> v] : d \in Dates, v \in {0, 365}}

AccrualJournalCommands ==
    {JournalCommand(1, 1, [k \in {DimensionKey} |-> v],
                    <<Debit("bank", 1), Credit("equity", 1)>>) :
        v \in DimensionValues}

\* One ACCRUE posts journals in a run, which keeps the amounts small.
Accrual(accrue, order) ==
    /\ uuid_counter <= MaxAccrualJournals
    /\ \A jid \in DOMAIN journals : journals[jid].description # "accrual"
    /\ Accrue(accrue, order)

NextAccrual ==
    \/ \E account \in AccountExprs :
          /\ account.id \notin DOMAIN ledger_accounts
          /\ CreateAccount(account)
    \/ /\ "usd" \notin DOMAIN rates
       /\ CreateRate([id |-> "usd"])
    \/ \E command \in AccrualSetRateCommands : SetRate(command)
    \/ \E command \in AccrualJournalCommands :
          /\ uuid_counter <= MaxAccrualJournals
          /\ CreateJournal(command)
    \/ \E compounding \in Compoundings : \E reading \in BOOLEAN :
       \E order \in AccrueOrders :
          Accrual(AccrualCommand(compounding, reading), order)

SpecAccrual == Init /\ [][NextAccrual]_vars

(***************************************************************************)
(* The parser of lexer.rs, on the text of one expression after GET. The    *)
(* text is a sequence of tokens [kind, n, digits]: a run of digits is      *)
(* "num" with its value n and its number of digits, "real" is a number     *)
(* with a decimal point and whole value n, the other kinds are the         *)
(* keywords and signs themselves. White space is left out; the "-" of the  *)
(* model has none around it. A rule returns [res, pos]: res is             *)
(* <<"Matched", value>>, <<"Failed", "()">> or a panic, pos the position   *)
(* after the match.                                                        *)
(***************************************************************************)
Tok(kind) == [kind |-> kind, n |-> 0, digits |-> 0]
Num(n, digits) == [kind |-> "num", n |-> n, digits |-> digits]
Real(n) == [kind |-> "real", n |-> n, digits |-> 0]

Matched(value, pos) == [res |-> <<"Matched", value>>, pos |-> pos]
Failed == [res |-> <<"Failed", "()">>, pos |-> 0]
Panicked(message) == [res |-> Panic(message), pos |-> 0]
IsMatched(r) == r.res[1] = "Matched"
IsPanicked(r) == r.res[1] = "Panic"

KindAt(tokens, pos) == IF pos <= Len(tokens) THEN tokens[pos].kind ELSE "eof"

\* time::Date::from_calendar_date accepts the days 1..DaysInMonth.
DaysInMonth(year, month) ==
    CASE month \in {4, 6, 9, 11} -> 30
      [] month = 2 ->
            IF year % 4 = 0 /\ (year % 100 # 0 \/ year % 400 = 0)
            THEN 29 ELSE 28
      [] OTHER -> 31

\* The date as the number of its day in its year.
RECURSIVE Ordinal(_, _, _)
Ordinal(year, month, day) ==
    IF month = 1 THEN day
    ELSE DaysInMonth(year, month - 1) + Ordinal(year, month - 1, day)

\* rule date(): four digits, "-", two digits, "-", two digits, then the
\* block: `month > 12 || day > 31` fails the rule, Month::try_from(month)
\* and Date::from_calendar_date(year, month, day) are unwrapped.
fql_date(tokens, pos) ==
    IF ~(/\ KindAt(tokens, pos) = "num" /\ tokens[pos].digits = 4
         /\ KindAt(tokens, pos + 1) = "-"
         /\ KindAt(tokens, pos + 2) = "num" /\ tokens[pos + 2].digits = 2
         /\ KindAt(tokens, pos + 3) = "-"
         /\ KindAt(tokens, pos + 4) = "num" /\ tokens[pos + 4].digits = 2)
    THEN Failed
    ELSE IF tokens[pos + 2].n > 12 \/ tokens[pos + 4].n > 31 THEN Failed
    ELSE IF tokens[pos + 2].n < 1
    THEN Panicked("called Result::unwrap on an Err value: invalid month")
    ELSE IF tokens[pos + 4].n
              \notin 1..DaysInMonth(tokens[pos].n, tokens[pos + 2].n)
    THEN Panicked("called Result::unwrap on an Err value: ComponentRange")
    ELSE Matched(Literal(DateValue(Ordinal(tokens[pos].n, tokens[pos + 2].n,
                                           tokens[pos + 4].n))),
                 pos + 5)

\* The alternatives of rule literal() after date(), in their order:
\* integer, boolean, a real and "%", an integer and "%". An alternative is
\* tried when the ones before it have failed.
literal_after_date(tokens, pos) ==
    CASE KindAt(tokens, pos) = "num" ->
            Matched(Literal(IntValue(tokens[pos].n)), pos + 1)
      [] KindAt(tokens, pos) = "-" /\ KindAt(tokens, pos + 1) = "num" ->
            Matched(Literal(IntValue(0 - tokens[pos + 1].n)), pos + 2)
      [] KindAt(tokens, pos) \in {"TRUE", "FALSE"} ->
            Matched(Literal(Bool(tokens[pos].kind = "TRUE")), pos + 1)
      [] KindAt(tokens, pos) = "real" /\ KindAt(tokens, pos + 1) = "%" ->
            Matched(Literal(Percentage(tokens[pos].n)), pos + 2)
      [] KindAt(tokens, pos) = "num" /\ KindAt(tokens, pos + 1) = "%" ->
            Matched(Literal(Percentage(tokens[pos].n)), pos + 2)
      [] OTHER -> Failed

\* d is what date() returned.
literal_dated(tokens, pos, d) ==
    IF IsMatched(d) \/ IsPanicked(d) THEN d
    ELSE literal_after_date(tokens, pos)

\* rule literal(): real() comes first, date() second.
fql_literal(tokens, pos) ==
    IF KindAt(tokens, pos) = "real"
    THEN Matched(Literal(Money(tokens[pos].n)), pos + 1)
    ELSE literal_dated(tokens, pos, fql_date(tokens, pos))

\* The levels of precedence!{..} in rule expression(), from the first.
Level(kind) ==
    CASE kind \in {"AND", "OR"} -> 1
      [] kind = "NOT" -> 2
      [] kind = "=" -> 3
      [] kind \in {"+", "-"} -> 4
      [] kind \in {"*", "/"} -> 5
      [] kind \in {"%", "^"} -> 6

InfixKinds == {"AND", "OR", "=", "+", "-", "*", "/", "%", "^"}

\* The constructor of ast::BinaryExpression each infix rule calls.
InfixName(kind) ==
    CASE kind = "AND" -> "And"
      [] kind = "OR" -> "Or"
      [] kind = "=" -> "Eq"
      [] kind = "+" -> "Add"
      [] kind = "-" -> "Subtract"
      [] kind = "*" -> "Multiply"
      [] kind = "/" -> "Divide"
      [] kind = "%" -> "Modulo"
      [] kind = "^" -> "Exponent"

RECURSIVE infix_parse(_, _, _)
RECURSIVE infix_loop(_, _, _, _)

\* The operand c of `kw_not() _* c:(@)` has been parsed.
prefix_not(c) ==
    IF IsMatched(c) THEN Matched(Not(c.res[2]), c.pos) ELSE c

\* The expression c of `"(" __* c:expression() __* ")"` has been parsed.
parenthesised(tokens, c) ==
    IF ~IsMatched(c) THEN c
    ELSE IF KindAt(tokens, c.pos) = ")" THEN Matched(c.res[2], c.pos + 1)
    ELSE Failed

\* l is what literal() returned; after it come ident() and the
\* parenthesised expression.
atom_after_literal(tokens, pos, l) ==
    IF IsMatched(l) \/ IsPanicked(l) THEN l
    ELSE IF KindAt(tokens, pos) = "ident"
    THEN Matched(Identifier("x"), pos + 1)
    ELSE IF KindAt(tokens, pos) = "("
    THEN parenthesised(tokens, infix_parse(tokens, pos + 1, 0))
    ELSE Failed

\* The prefix operators and the atoms of precedence!, tried in their order
\* whatever the level asked for.
prefix_atom(tokens, pos) ==
    IF KindAt(tokens, pos) = "NOT"
    THEN prefix_not(infix_parse(tokens, pos + 1, Level("NOT")))
    ELSE atom_after_literal(tokens, pos, fql_literal(tokens, pos))

\* The right operand b of `a:(@) op b:@` has been parsed: a failure leaves
\* the expression at a.
infix_operand(tokens, pos, min_prec, a, b) ==
    IF IsPanicked(b) THEN b
    ELSE IF ~IsMatched(b) THEN Matched(a, pos)
    ELSE infix_loop(tokens, b.pos, min_prec,
                    Binary(InfixName(tokens[pos].kind), a, b.res[2]))

\* The loop over the infix operators of the levels from min_prec on, a
\* being the expression parsed so far: the operand on the right is parsed
\* at the level after the operator's.
infix_loop(tokens, pos, min_prec, a) ==
    IF KindAt(tokens, pos) \in InfixKinds
    THEN IF Level(tokens[pos].kind) >= min_prec
         THEN infix_operand(tokens, pos, min_prec, a,
                            infix_parse(tokens, pos + 1,
                                        Level(tokens[pos].kind) + 1))
         ELSE Matched(a, pos)
    ELSE Matched(a, pos)

\* first is what prefix_atom returned.
infix_first(tokens, min_prec, first) ==
    IF IsMatched(first)
    THEN infix_loop(tokens, first.pos, min_prec, first.res[2])
    ELSE first

infix_parse(tokens, pos, min_prec) ==
    infix_first(tokens, min_prec, prefix_atom(tokens, pos))

\* pub rule expression()
fql_expression(tokens, pos) == infix_parse(tokens, pos, 0)

\* e is what expression() returned on the text after GET: the statement
\* ends where the expression ends, and rule statements() wants the end of
\* the input there.
parsed(tokens, e) ==
    IF IsPanicked(e) THEN e.res
    ELSE IF IsMatched(e) /\ e.pos > Len(tokens) THEN Ok(e.res[2])
    ELSE Err("ParseError")

\* lexer::parse on "GET " and the tokens: the expression of the statement.
parse(tokens) == parsed(tokens, fql_expression(tokens, 1))

(***************************************************************************)
(* AND and OR over operands of every kind, between the creations of the    *)
(* accounts the operands read.                                             *)
(***************************************************************************)
\* TRUE, FALSE, 1, NULL, 1 / 0, an identifier no context binds, the
\* balance of an account that is created at some time and of one that
\* never is, and WITH RATE of a rate that does not exist.
OperandKinds ==
    {"true", "false", "int", "null", "division", "identifier", "balance",
     "missing", "rate"}

LogicalOperand(kind) ==
    CASE kind = "true" -> Literal(Bool(TRUE))
      [] kind = "false" -> Literal(Bool(FALSE))
      [] kind = "int" -> Literal(IntValue(1))
      [] kind = "null" -> Literal(NullValue)
      [] kind = "division" ->
            Binary("Divide", Literal(IntValue(1)), Literal(IntValue(0)))
      [] kind = "identifier" -> Identifier("x")
      [] kind = "balance" -> BalanceOf("bank")
      [] kind = "missing" -> BalanceOf(MissingAccount)
      [] kind = "rate" -> Rate(MissingRate)

EvaluateExpression(expression) ==
    /\ Returned("evaluate_expression", [expression |-> expression],
                evaluate_expression(Storage, ContextDate, expression), None)
    /\ UNCHANGED <<storage_vars, sqlite, pre_begin>>

NextLogical ==
    \/ \E account \in AccountExprs :
          /\ account.id \notin DOMAIN ledger_accounts
          /\ CreateAccount(account)
    \/ \E op \in {"And", "Or"} : \E k1 \in OperandKinds : \E k2 \in OperandKinds :
          EvaluateExpression(Binary(op, LogicalOperand(k1), LogicalOperand(k2)))

SpecLogical == Init /\ [][NextLogical]_vars

(***************************************************************************)
(* Texts handed to parse, and the expressions it returns evaluated.        *)
(***************************************************************************)
OperandTokens == {Tok("TRUE"), Tok("FALSE"), Num(2, 1), Num(3, 1)}
PrecedenceKinds == {"AND", "OR", "=", "+", "*", "%", "^"}

\* x op1 y op2 z
PrecedenceTexts ==
    {<<x, Tok(op1), y, Tok(op2), z>> :
        x \in OperandTokens, y \in OperandTokens, z \in OperandTokens,
        op1 \in PrecedenceKinds, op2 \in PrecedenceKinds}

\* NOT x op y, ( x op y ), ( x op1 y ) op2 z and a bare identifier
OtherTexts ==
    {<<Tok("NOT"), x, Tok(op), y>> :
        x \in OperandTokens, y \in OperandTokens, op \in {"AND", "OR", "="}}
      \cup {<<Tok("("), x, Tok(op), y, Tok(")")>> :
              x \in OperandTokens, y \in OperandTokens, op \in {"OR", "+"}}
      \cup {<<Tok("("), x, Tok("OR"), y, Tok(")"), Tok("AND"), Tok("FALSE")>> :
              x \in OperandTokens, y \in OperandTokens}
      \cup {<<Tok("ident")>>, <<Tok("("), Tok("TRUE")>>}

\* YYYY-MM-DD
DateTexts ==
    {<<Num(2023, 4), Tok("-"), Num(month, 2), Tok("-"), Num(day, 2)>> :
        month \in {0, 1, 2, 12, 13}, day \in {0, 1, 28, 29, 30, 31, 32}}

\* x * p%, with p an integer and with p a real
PercentageTexts ==
    {<<Num(x, 3), Tok("*"), p, Tok("%")>> :
        x \in {100, 200}, p \in {Num(5, 1), Real(5)}}

Texts == PrecedenceTexts \cup OtherTexts \cup DateTexts \cup PercentageTexts

\* parse keeps no state between calls: a behaviour parses one text.
Parse(tokens) ==
    /\ last_call.op = "new"
    /\ Returned("parse", tokens, parse(tokens), None)
    /\ UNCHANGED <<storage_vars, sqlite, pre_begin>>

\* The expression of the statement parse has returned is evaluated.
EvaluateParsed ==
    /\ last_call.op = "parse"
    /\ IsOk(last_call.res)
    /\ Returned("evaluate_expression",
                [tokens |-> last_call.arg, expression |-> last_call.res[2]],
                evaluate_expression(Storage, ContextDate, last_call.res[2]),
                None)
    /\ UNCHANGED <<storage_vars, sqlite, pre_begin>>

\* An amount times a Percentage literal, as the expression x * p% stands
\* for: evaluated as it is, without the parser.
EvaluatePercentage(x, int, p) ==
    /\ last_call.op = "new"
    /\ EvaluateExpression(
           Binary("Multiply",
                  Literal(IF int THEN IntValue(x) ELSE Money(x)),
                  Literal(Percentage(p))))

NextParse ==
    \/ \E tokens \in Texts : Parse(tokens)
    \/ EvaluateParsed
    \/ \E x \in {100, 200} : \E int \in BOOLEAN : EvaluatePercentage(x, int, 5)

SpecParse == Init /\ [][NextParse]_vars

(***************************************************************************)
(* income_statement over accounts of every type and journals on every day. *)
(***************************************************************************)
\* At most MaxIncomeJournals journals in a behaviour.
MaxIncomeJournals == 2

IncomeJournalCommands ==
    {JournalCommand(d, 1, EmptyMap, <<Debit("bank", 1), Credit("equity", 1)>>) :
        d \in Dates}

NextIncome ==
    \/ \E a \in AccountIds : \E t \in AccountTypes :
          /\ a \notin DOMAIN ledger_accounts
          /\ CreateAccount([id |-> a, account_type |-> t])
    \/ \E command \in IncomeJournalCommands :
          /\ uuid_counter <= MaxIncomeJournals
          /\ CreateJournal(command)
    \/ \E from \in Dates : \E to \in Dates :
          EvaluateExpression(FunctionCall("income_statement", <<from, to>>))

SpecIncome == Init /\ [][NextIncome]_vars

(***************************************************************************)
(* GET statements between the writes of the storage.                       *)
(***************************************************************************)
\* At most MaxGetJournals journals in a behaviour.
MaxGetJournals == 1

Projection(alias, expression) == [alias |-> alias, expression |-> expression]

\* GET with one projection per function that reads the storage.
GetEveryFunction(account, rate, from, to) ==
    Statement("Get",
              [elements |->
                  <<Projection("b", FunctionCall("balance", <<account, to, None>>)),
                    Projection("s", FunctionCall("statement",
                                                 <<account, from, to, None>>)),
                    Projection("t", FunctionCall("trial_balance", <<to>>)),
                    Projection("i", FunctionCall("income_statement", <<from, to>>)),
                    Projection("n", FunctionCall("account_count", <<>>)),
                    Projection("r", FunctionCall("fx_rate", <<rate, to>>)),
                    Projection("c", FunctionCall("convert", <<2, rate, to>>))>>])

\* GET of one function.
GetOne(name, args) ==
    Statement("Get", [elements |-> <<Projection("expression",
                                                FunctionCall(name, args))>>])

\* The accounts and rates read are those of the model and one that is never
\* created.
GetStatements ==
    {GetEveryFunction("bank", "usd", from, MaxDate) : from \in Dates}
      \cup {GetOne("balance", <<a, MaxDate, None>>) :
              a \in {"bank", MissingAccount}}
      \cup {GetOne("statement", <<a, MaxDate, 1, None>>) :
              a \in {"bank", MissingAccount}}
      \cup {GetOne("fx_rate", <<r, 1>>) : r \in {"usd", MissingRate}}
      \cup {GetOne("convert", <<2, r, MaxDate>>) : r \in {"usd", MissingRate}}
      \cup {GetOne("account_count", <<>>), GetOne("rounded", <<>>)}

NextReadOnly ==
    \/ \E account \in AccountExprs : CreateAccount(account)
    \/ CreateRate([id |-> "usd"])
    \/ \E command \in TxSetRateCommands : SetRate(command)
    \/ \E d \in Dates :
          /\ uuid_counter <= MaxGetJournals
          /\ CreateJournal(JournalCommand(d, 1, EmptyMap,
                                          <<Debit("bank", 1),
                                            Credit("equity", 1)>>))
    \/ DOMAIN snapshots = {} /\ BeginTransaction
    \/ \E statement \in GetStatements : Execute(statement)

SpecReadOnly == Init /\ [][NextReadOnly]_vars

(***************************************************************************)
(* Properties.                                                             *)
(***************************************************************************)
\* The sum of the signed amounts of the postings 1..n of a log that are dated
\* on or before `date`.
RECURSIVE PostedSum(_, _, _)
PostedSum(log, date, n) ==
    IF n = 0 THEN 0
    ELSE (IF log[n].date <= date THEN log[n].amount ELSE 0)
            + PostedSum(log, date, n - 1)

\* The sum of the amounts of the ledger entries of one kind.
RECURSIVE KindSum(_, _, _)
KindSum(ledger_entries, kind, n) ==
    IF n = 0 THEN 0
    ELSE (IF ledger_entries[n].kind = kind THEN ledger_entries[n].amount ELSE 0)
            + KindSum(ledger_entries, kind, n - 1)

\* C1: whenever execute_script has returned an error, the accounts with their
\* postings and balances, the rate curves, the journal headers and the
\* sequence counter are what they were before the script started.
ScriptErrorRestoresLedger ==
    (last_call.op = "execute_script" /\ IsErr(last_call.res))
        => Ledger(Storage) = last_call.before[1]

\* A script has failed at its second statement after its first statement, a
\* journal on the existing account @bank, had been stored.
ScriptFailedAfterAWrite ==
    /\ last_call.op = "execute_script"
    /\ IsErr(last_call.res)
    /\ Len(last_call.arg) = 2
    /\ last_call.arg[1].kind = "CreateJournal"
    /\ last_call.arg[1].body.operations[2].account = "bank"
    /\ "bank" \in DOMAIN ledger_accounts
    /\ uuid_counter - 1 > Cardinality(DOMAIN journals)

\* C2: after a successful rollback_transaction(t), every read (get_balance,
\* get_statement, get_rate, get_dimension_values, list_accounts) returns what
\* it returned when t began, and the sequence counter has its value of then.
RollbackRestoresReads ==
    (last_call.op = "rollback_transaction" /\ IsOk(last_call.res))
        => /\ Observe(Storage) = Observe(last_call.before[1])
           /\ sequence_counter = last_call.before[1].sequence_counter

\* A rollback has undone writes to the accounts, the rates, the journals and
\* the sequence counter.
RollbackUndidEveryKindOfWrite ==
    /\ last_call.op = "rollback_transaction"
    /\ IsOk(last_call.res)
    /\ last_call.arg.changed =
          {"ledger_accounts", "rates", "journals", "sequence_counter"}

\* C3: as long as every call has succeeded, get_balance(A, D, no dimension)
\* is the sum of the stored signed amounts of the postings on A dated <= D.
BalanceIsSumOfPostings ==
    ~errors_seen =>
        \A a \in DOMAIN ledger_accounts : \A d \in ReadDates :
            get_balance(Storage, a, d, None)
                = Ok(PostedSum(ledger_accounts[a].log, d,
                               Len(ledger_accounts[a].log)))

\* C4: a journal that create_journal has accepted is balanced: its debits
\* and its credits have the same sum.
AcceptedJournalIsBalanced ==
    (last_call.op = "create_journal" /\ IsOk(last_call.res))
        => LET entries == last_call.arg.ledger_entries
           IN  KindSum(entries, "Debit", Len(entries))
                  = KindSum(entries, "Credit", Len(entries))

\* The sum of the balances of the items of a trial balance whose account
\* type is one of `types`.
RECURSIVE TypeSum(_, _)
TypeSum(items, types) ==
    IF items = {} THEN 0
    ELSE LET item == CHOOSE i \in items : TRUE
         IN  (IF item.account_type \in types THEN item.balance ELSE 0)
                + TypeSum(items \ {item}, types)

\* C5: as long as every statement has succeeded, the trial balance of every
\* date is balanced: Asset + Expense = Liability + Equity + Income.
TrialBalanceIsBalanced ==
    ~errors_seen =>
        \A d \in ReadDates :
            LET items == TrialBalance_call(Storage, d)[2].value
            IN  TypeSum(items, {"Asset", "Expense"})
                  = TypeSum(items, {"Liability", "Equity", "Income"})

\* C6: a create_journal that fails with AccountNotFound stores no journal
\* header, applies no posting and consumes no sequence number.
FailedJournalLeavesNoTrace ==
    [][(last_call'.op = "create_journal"
            /\ last_call'.res = Err("AccountNotFound"))
        => /\ journals' = journals
           /\ ledger_accounts' = ledger_accounts
           /\ sequence_counter' = sequence_counter]_vars

\* C7: the running balance of the last row of a non-empty statement from the
\* first day to D is the balance at D, for every account and dimension filter.
StatementEndsAtBalance ==
    \A a \in DOMAIN ledger_accounts : \A d \in Dates : \A f \in DimensionFilters :
        LET rows == get_statement(Storage, a, Included(1), Included(d), f)[2]
        IN  Len(rows) > 0
                => rows[Len(rows)].balance = get_balance(Storage, a, d, f)[2]

\* C8: of two journals present in the store, the one created later has the
\* greater sequence number (so the sequence numbers are pairwise distinct).
SequenceFollowsCreation ==
    \A j1 \in DOMAIN journals : \A j2 \in DOMAIN journals :
        j1 < j2 => journals[j1].sequence < journals[j2].sequence

\* Two journals are present, the later of which was created after a rollback
\* had taken the sequence counter back.
SequenceReusedAfterRollback ==
    \E j1 \in DOMAIN journals : \E j2 \in DOMAIN journals :
        j1 < j2 /\ journals[j2].sequence < j2

\* C9: a successful set_rate(r, d, v) leaves the lookups before d as they
\* were, makes v the value of every lookup from d up to the next later date
\* key (also when d had a value already), and leaves the lookups from that
\* key on as they were.
SetRateIsAsOf ==
    [][(last_call'.op = "set_rate" /\ IsOk(last_call'.res))
        => LET c == last_call'.arg
               later == {k \in DOMAIN rates[c.id].values : c.date < k}
           IN  \A d \in ReadDates :
                  get_rate(Storage', c.id, d) =
                     IF d < c.date \/ (\E k \in later : k <= d)
                     THEN get_rate(Storage, c.id, d)
                     ELSE Ok(c.rate)]_vars

\* A point was set on a curve that has a point at a later date too.
RateSetBeforeALaterPoint ==
    /\ last_call.op = "set_rate"
    /\ IsOk(last_call.res)
    /\ \E k \in DOMAIN rates[last_call.arg.id].values : last_call.arg.date < k

\* C10: get_rate(r, D) fails with NoRateFound when r has no point dated <= D
\* and when r was never created.
GetRateFailsWithNoRateFound ==
    \A r \in RateIds \cup {MissingRate} : \A d \in ReadDates :
        (r \notin DOMAIN rates \/ \A k \in DOMAIN rates[r].values : k > d)
            => get_rate(Storage, r, d) = Err("NoRateFound")

\* C11: a begin_transaction called while a transaction is active returns an
\* error and creates no second snapshot.
SecondBeginIsRefused ==
    [][(last_call'.op = "begin_transaction" /\ DOMAIN snapshots # {})
        => /\ IsErr(last_call'.res)
           /\ snapshots' = snapshots]_vars

\* The transaction a commit or rollback call names.
CalledTx(call) ==
    IF call.op = "rollback_transaction" THEN call.arg.tx_id ELSE call.arg

\* C12: commit_transaction(t) and rollback_transaction(t) of a transaction
\* that is not active return NoActiveTransaction and leave the accounts, the
\* rates, the journals, the sequence counter and the snapshots as they are.
EndOfInactiveTxIsRefused ==
    [][(/\ last_call'.op \in {"commit_transaction", "rollback_transaction"}
        /\ CalledTx(last_call') \notin DOMAIN snapshots)
        => /\ last_call'.res = Err("NoActiveTransaction")
           /\ Ledger(Storage') = Ledger(Storage)
           /\ snapshots' = snapshots]_vars

\* A rollback of a transaction that had been begun and has ended was
\* refused while another transaction was active and a journal was stored.
EndedTxRolledBackAgain ==
    /\ last_call.op = "rollback_transaction"
    /\ last_call.res = Err("NoActiveTransaction")
    /\ last_call.arg.tx_id < tx_counter
    /\ DOMAIN snapshots # {}
    /\ DOMAIN journals # {}

\* The sign convention as stated: the amount stored for a DEBIT or CREDIT of
\* x on an account of the given type.
StatedAmount(account_type, kind, x) ==
    CASE account_type \in {"Asset", "Expense"} ->
            IF kind = "Debit" THEN x ELSE 0 - x
      [] account_type \in {"Liability", "Equity", "Income"} ->
            IF kind = "Debit" THEN 0 - x ELSE x

\* The amounts to be stored on account a for the ledger entries i.. of a
\* journal, in the order of the entries.
RECURSIVE StatedPostings(_, _, _, _)
StatedPostings(ledger_entries, a, account_type, i) ==
    IF i > Len(ledger_entries) THEN <<>>
    ELSE (IF ledger_entries[i].account_id = a
          THEN <<StatedAmount(account_type, ledger_entries[i].kind,
                              ledger_entries[i].amount)>>
          ELSE <<>>)
            \o StatedPostings(ledger_entries, a, account_type, i + 1)

\* The sum of a sequence of amounts.
RECURSIVE SeqSum(_)
SeqSum(seq) == IF seq = <<>> THEN 0 ELSE Head(seq) + SeqSum(Tail(seq))

\* The amounts of the postings n+1.. of a log.
Amounts(log, n) == [i \in 1..(Len(log) - n) |-> log[n + i].amount]

\* C14: a successful create_journal stores, on every account, one posting
\* per ledger entry on that account, +x for a DEBIT and -x for a CREDIT of
\* x on an Asset or Expense account and the opposite signs on a Liability,
\* Equity or Income account, and the balance of the account on the
\* journal's date moves by their sum.
PostingsFollowSignConvention ==
    [][(last_call'.op = "create_journal" /\ IsOk(last_call'.res))
        => \A a \in DOMAIN ledger_accounts :
             LET stated == StatedPostings(last_call'.arg.ledger_entries, a,
                                          ledger_accounts[a].account_type, 1)
                 date == last_call'.arg.date
             IN  /\ Amounts(ledger_accounts'[a].log,
                            Len(ledger_accounts[a].log)) = stated
                 /\ LedgerStore_get_balance(ledger_accounts'[a], date, None)
                        = LedgerStore_get_balance(ledger_accounts[a], date, None)
                            + SeqSum(stated)]_vars

\* An Asset account was debited and an Equity account credited by the only
\* journal, and both have the journal's amount as balance.
DebitedAssetAndCreditedEquityAgree ==
    /\ last_call.op = "create_journal"
    /\ IsOk(last_call.res)
    /\ last_call.arg.ledger_entries = <<Debit("bank", 1), Credit("equity", 1)>>
    /\ DOMAIN ledger_accounts = {"bank", "equity"}
    /\ ledger_accounts["bank"].account_type = "Asset"
    /\ ledger_accounts["equity"].account_type = "Equity"
    /\ Len(ledger_accounts["bank"].log) = 1
    /\ Len(ledger_accounts["equity"].log) = 1
    /\ get_balance(Storage, "bank", 1, None) = Ok(last_call.arg.amount)
    /\ get_balance(Storage, "equity", 1, None) = Ok(last_call.arg.amount)

\* The sum of the signed amounts of the postings 1..n of a log that are dated
\* on or before `date` and whose journal carries the dimension <<k, v>>.
RECURSIVE DimensionPostedSum(_, _, _, _)
DimensionPostedSum(log, date, dimension, n) ==
    IF n = 0 THEN 0
    ELSE (IF /\ log[n].date <= date
             /\ dimension[1] \in DOMAIN log[n].dimensions
             /\ log[n].dimensions[dimension[1]] = dimension[2]
          THEN log[n].amount ELSE 0)
            + DimensionPostedSum(log, date, dimension, n - 1)

\* C15: as long as every call has succeeded, get_balance(A, D, (k, v)) is
\* the sum of the stored signed amounts of the postings on A dated <= D
\* whose journal carries k = v, in whatever order the journals came.
DimensionBalanceIsSumOfPostings ==
    ~errors_seen =>
        \A a \in DOMAIN ledger_accounts : \A d \in ReadDates :
            \A dimension \in DimensionFilters \ {None} :
                get_balance(Storage, a, d, dimension)
                    = Ok(DimensionPostedSum(ledger_accounts[a].log, d,
                                            dimension[1],
                                            Len(ledger_accounts[a].log)))

\* What can be read of one account: its postings, and its balance and
\* statement for every date, range and dimension.
ObserveAccount(store) ==
    [postings |-> store.log,
     balance |->
        [d \in ReadDates, f \in DimensionFilters |->
            LedgerStore_get_balance(store, d, f)],
     statement |->
        [r \in {x \in ReadBounds \X ReadBounds : ValidRange(x[1], x[2])},
         f \in DimensionFilters |->
            LedgerStore_get_statement(store, r[1], r[2], f)]]

\* C16: create_account for an id that exists, with the type it has, leaves
\* the postings, balances and statements of the account as they were.
RecreateAccountChangesNothing ==
    [][(/\ last_call'.op = "create_account"
        /\ last_call'.arg.id \in DOMAIN ledger_accounts
        /\ ledger_accounts[last_call'.arg.id].account_type
              = last_call'.arg.account_type)
        => /\ IsOk(last_call'.res)
           /\ ObserveAccount(ledger_accounts'[last_call'.arg.id])
                 = ObserveAccount(ledger_accounts[last_call'.arg.id])]_vars

\* C17: no operation other than a rollback removes a rate point: a
\* get_rate(r, d) that succeeds keeps succeeding after every create_rate
\* and set_rate.
RatePointsAreKept ==
    [][\A r \in RateIds : \A d \in ReadDates :
          IsOk(get_rate(Storage, r, d)) => IsOk(get_rate(Storage', r, d))]_vars

\* C18: an account stays, with the type of its creation: whatever
\* list_accounts lists before a create_account or create_journal, it lists
\* after it.
AccountKeepsItsType ==
    [][list_accounts(Storage) \subseteq list_accounts(Storage')]_vars

\* No posting of the log dated within [from, to] carries the dimension key.
NoDimensionValueSeen(log, dimension_key, from, to) ==
    \A i \in DOMAIN log :
        (from <= log[i].date /\ log[i].date <= to)
            => dimension_key \notin DOMAIN log[i].dimensions

\* C19: an ACCRUE on an existing account and rate curve, with no value of
\* the BY dimension seen on the account within [start, end], succeeds with
\* journals_created = 0 whatever points the curve has; and an ACCRUE with
\* end < start looks up no rate and creates no journal.
AccrueEdgeCasesSucceed ==
    last_call.op = "accrue" =>
        LET accrue == last_call.arg.accrue
            start_date == accrue.start_date.value.value
            end_date == accrue.end_date.value.value
            before == last_call.before[1]
        IN  /\ (/\ accrue.account_id \in DOMAIN before.ledger_accounts
                /\ accrue.rate_id \in DOMAIN before.rates
                /\ NoDimensionValueSeen(
                       before.ledger_accounts[accrue.account_id].log,
                       accrue.by_dimension, start_date, end_date))
                  => last_call.res =
                        Ok([ExecutionResult_new EXCEPT !.journals_created = 0])
            /\ end_date < start_date
                  => /\ last_call.arg.lookups = 0
                     /\ journals = before.journals

\* The value is Int 0 or Money 0.
IsZeroValue(r) == IsOk(r) /\ r[2].type \in {"Int", "Money"} /\ r[2].value = 0

\* C20: a GET of a division or modulo whose left operand has a value and
\* whose right operand is Int 0 or Money 0 returns DivideByZero, and a
\* statement that returns DivideByZero leaves the accounts, the rates, the
\* journals and the sequence counter as they were.
DivisionByZeroFailsCleanly ==
    last_call.op = "execute" =>
        LET before == last_call.before[1]
            statement == last_call.arg
        IN  /\ statement.kind = "Get" =>
                  LET e == statement.body.elements[1].expression
                  IN  (/\ IsOk(evaluate_expression(before, ContextDate, e.args[1]))
                       /\ IsZeroValue(evaluate_expression(before, ContextDate,
                                                          e.args[2])))
                        => last_call.res = Err("DivideByZero")
            /\ last_call.res = Err("DivideByZero")
                  => Ledger(Storage) = before

\* The script has an explicit BEGIN ... COMMIT block with a write in it and
\* then a failing GET, and nothing before the GET fails: positions i < w <
\* j < k hold BEGIN, a write, COMMIT and the GET, the other statements
\* before k being writes.
CommittedBlockThenFailure(statements) ==
    \E i, w, j, k \in 1..Len(statements) :
        /\ i < w /\ w < j /\ j < k
        /\ statements[i].kind = "Begin"
        /\ statements[w].kind = "CreateAccount"
        /\ statements[j].kind = "Commit"
        /\ statements[k].kind = "Get"
        /\ \A m \in 1..(k - 1) : m \notin {i, j}
                => statements[m].kind = "CreateAccount"

\* C13: when a script with an explicitly committed block fails at a later
\* statement, the rollback of the implicit transaction succeeds and the
\* backend holds what it held before the script, on both backends.
ImplicitRollbackUndoesCommittedBlock ==
    (/\ last_call.op = "execute_tx_script"
     /\ CommittedBlockThenFailure(last_call.arg.statements))
        => /\ IsErr(last_call.res)
           /\ last_call.arg.ended = Ok(Unit)
           /\ Contents(IF last_call.arg.backend = "sqlite" THEN sqlite
                       ELSE Storage) = last_call.before[1]

\* The result is the DataValue value.
Yields(res, value) ==
    /\ IsOk(res)
    /\ res[2].type = value.type
    /\ res[2].value = value.value

\* C21: an unbound bare identifier fails with UnknownIdentifier and a bound
\* one yields its value; an unbound $parameter yields Null; name.key yields
\* Null when name is unbound, is not a Map or lacks the key, and the value
\* under the key otherwise.
LookupMissesAsStated ==
    last_call.op = "evaluate_unary_expression" =>
        LET variables == last_call.arg.variables
            e == last_call.arg.expression
            bound == e.id \in DOMAIN variables
        IN  /\ e.expr = "Identifier" /\ bound =>
                  Yields(last_call.res, variables[e.id])
            /\ e.expr = "Identifier" /\ ~bound =>
                  /\ IsErr(last_call.res)
                  /\ last_call.res[2] = "UnknownIdentifier"
            /\ e.expr = "Parameter" /\ bound =>
                  Yields(last_call.res, variables[e.id])
            /\ e.expr = "Parameter" /\ ~bound =>
                  IsOk(last_call.res) /\ last_call.res[2].type = "Null"
            /\ e.expr = "Property" =>
                  IF bound /\ variables[e.id].type = "Map"
                  THEN IF e.name \in DOMAIN variables[e.id].value
                       THEN Yields(last_call.res, variables[e.id].value[e.name])
                       ELSE IsOk(last_call.res)
                                /\ last_call.res[2].type = "Null"
                  ELSE IsOk(last_call.res) /\ last_call.res[2].type = "Null"

\* A bare identifier was looked up in a context that binds another name
\* but not this one.
UnboundIdentifierLookedUp ==
    /\ last_call.op = "evaluate_unary_expression"
    /\ last_call.arg.expression.expr = "Identifier"
    /\ last_call.arg.expression.id \notin DOMAIN last_call.arg.variables
    /\ DOMAIN last_call.arg.variables # {}
    /\ IsErr(last_call.res)

\* The rate id has a value as of date.
Rated(id, date) ==
    id \in DOMAIN rates /\ \E d \in DOMAIN rates[id].values : d <= date

\* The value of rate id as of date: that of its latest point on or before
\* the date, and 0 without one.
AsOfRate(id, date) ==
    IF ~Rated(id, date) THEN 0
    ELSE LET points == {d \in DOMAIN rates[id].values : d <= date}
         IN  rates[id].values[CHOOSE d \in points : \A e \in points : e <= d]

\* The amount an operation of the journal is to post.
OperationAmount(journal, operation) ==
    IF operation.amount = None THEN journal.amount
    ELSE IF operation.amount[1].expr = "Rate"
    THEN journal.amount * AsOfRate(operation.amount[1].id, journal.date)
    ELSE operation.amount[1].value.value

\* The amount of the operation is neither absent nor a Money, an Int or a
\* rate.
BadAmount(operation) ==
    /\ operation.amount # None
    /\ operation.amount[1].expr = "Literal"
    /\ operation.amount[1].value.type \notin {"Money", "Int"}

\* The amount of the operation is a rate without a value as of date.
UnratedAmount(operation, date) ==
    /\ operation.amount # None
    /\ operation.amount[1].expr = "Rate"
    /\ ~Rated(operation.amount[1].id, date)

\* C22: a CREATE JOURNAL that succeeds posts, per operation, the journal
\* amount when the operation has none, a Money or Int amount as given, and
\* for WITH RATE r the journal amount times the rate as of the date of the
\* journal; and when the first operation whose amount cannot be evaluated
\* has an amount of another type, the statement fails with InvalidType and
\* the ledger is as before.
JournalAmountsAsStated ==
    [][(last_call'.op = "execute" /\ last_call'.arg.kind = "CreateJournal")
        => LET journal == last_call'.arg.body
               ops == journal.operations
               stated == [i \in 1..Len(ops) |->
                            [kind |-> ops[i].kind, account_id |-> ops[i].account,
                             amount |-> OperationAmount(journal, ops[i])]]
           IN  /\ IsOk(last_call'.res) =>
                     \A a \in DOMAIN ledger_accounts :
                        Amounts(ledger_accounts'[a].log,
                                Len(ledger_accounts[a].log))
                          = StatedPostings(stated, a,
                                           ledger_accounts[a].account_type, 1)
               /\ (\E i \in 1..Len(ops) :
                       /\ BadAmount(ops[i])
                       /\ \A j \in 1..(i - 1) :
                             ~BadAmount(ops[j])
                                /\ ~UnratedAmount(ops[j], journal.date))
                     => /\ IsErr(last_call'.res)
                        /\ last_call'.res[2] = "InvalidType"
                        /\ Ledger(Storage') = Ledger(Storage)]_vars

\* A journal dated before the date of the context was created with a
\* WITH RATE operation while the rate as of the journal's date differs from
\* the rate as of the date of the context.
RatedJournalBeforeContextDate ==
    /\ last_call.op = "execute"
    /\ last_call.arg.kind = "CreateJournal"
    /\ IsOk(last_call.res)
    /\ last_call.arg.body.date < ContextDate
    /\ \E i \in 1..Len(last_call.arg.body.operations) :
          /\ last_call.arg.body.operations[i].amount = Some(Rate("usd"))
          /\ Rated("usd", last_call.arg.body.date)
          /\ AsOfRate("usd", last_call.arg.body.date)
                # AsOfRate("usd", ContextDate)

\* C23: a trial balance taken while other threads create journals that
\* debit @bank and credit @equity by the same amount sees each journal on
\* both accounts or on neither: the two balances it returns are equal.
TrialBalanceSeesWholeJournals ==
    (last_call.op = "trial_balance" /\ IsOk(last_call.res))
        => \A x \in last_call.res[2].value : \A y \in last_call.res[2].value :
              x.balance = y.balance

\* C24: a rollback is atomic for the other threads. A thread that, after
\* the transaction was begun, creates @bank and then sets the rate usd
\* therefore never finds, once the rollback and its own calls have
\* returned, its later write undone and its earlier write kept.
RollbackRestoresAtOnce ==
    (/\ tx_counter > 1
     /\ snapshots = EmptyMap
     /\ \A t \in ThreadIds : threads[t].pc \in {"idle", "written"}
     /\ \E t \in ThreadIds : threads[t].pc = "written")
        => ~(/\ "bank" \in DOMAIN ledger_accounts
             /\ "usd" \in DOMAIN rates
             /\ rates["usd"].values = EmptyMap)

\* C25: scripts with transactions are serialised, so that no step removes
\* or alters the account a script has created and committed: the rollback
\* of another script, begun before that write, leaves it in place.
RollbackKeepsCommittedWrites ==
    [][\A t \in ThreadIds :
         (threads[t].pc = "committed"
            /\ AccountOf(t).id \in DOMAIN ledger_accounts)
         => /\ AccountOf(t).id \in DOMAIN ledger_accounts'
            /\ ledger_accounts'[AccountOf(t).id]
                  = ledger_accounts[AccountOf(t).id]]_vars

\* C26: concurrent storage calls never deadlock: no thread holds one of
\* two locks and waits for the other while another thread holds that other
\* and waits for the first.
NoLockCycle ==
    ~ \E a \in ThreadIds : \E b \in ThreadIds \ {a} :
        /\ HoldsConn(a)
        /\ threads[a].pc = "begin_transaction"
        /\ HoldsActiveTx(b)
        /\ threads[b].pc \in {"commit_transaction", "rollback_transaction"}

\* C27: every call applied to the in-memory and to the SQLite backend, both
\* empty at first and given the same calls, returns the same success value
\* or the same kind of error on both.
BackendsAgree ==
    last_call.op \in {"both_create_account", "both_create_rate",
                      "both_set_rate", "both_get_rate", "both_list_accounts"}
        => last_call.res = last_call.arg.sqlite

\* The journals a step has created.
NewJournals == DOMAIN journals' \ DOMAIN journals

\* C28: an ACCRUE that succeeds creates no journal for a dimension value
\* whose accrued amount is 0, and journals_created counts the journals of
\* the other values.
ZeroAccrualsGetNoJournal ==
    [][(last_call'.op = "accrue" /\ IsOk(last_call'.res))
        => /\ \A jid \in NewJournals : journals'[jid].amount # 0
           /\ last_call'.res[2].journals_created
                 = Cardinality({jid \in NewJournals : journals'[jid].amount # 0})]_vars

\* The amount of the recurrence for the dimension value v after the days
\* 1..d of the window, on the ledger before the statement: 0 before the
\* first day, and on day d the amount a of the day before plus
\* (balance + a) * rate, divided by 365 when compounded daily.
RECURSIVE StatedAccrual(_, _, _)
StatedAccrual(accrue, v, d) ==
    IF d < 1 THEN 0
    ELSE LET a == StatedAccrual(accrue, v, d - 1)
             pv == get_balance(Storage, accrue.account_id, d,
                               Some(<<accrue.by_dimension, v>>))[2] + a
             r == AsOfRate(accrue.rate_id, d)
         IN  IF accrue.compounding = Some("Daily")
             THEN a + ((pv * r) \div 365)
             ELSE a + pv * r

\* The dimension values the postings of the account carry.
ValuesPosted(account_id, key) ==
    {ledger_accounts[account_id].log[i].dimensions[key] :
        i \in {j \in DOMAIN ledger_accounts[account_id].log :
                  key \in DOMAIN ledger_accounts[account_id].log[j].dimensions}}

\* C29: an ACCRUE that succeeds creates, for every dimension value v of the
\* account, one journal carrying v whose amount is that of the recurrence
\* a := a + daily_accrual(rate as of d, balance(account, d, v) + a) over
\* the days of the window in order, daily_accrual(r, pv) being pv * r / 365
\* when compounded daily and pv * r otherwise.
AccrualFollowsRecurrence ==
    [][(last_call'.op = "accrue" /\ IsOk(last_call'.res))
        => \A v \in ValuesPosted(last_call'.arg.accrue.account_id,
                                 last_call'.arg.accrue.by_dimension) :
             /\ Cardinality({jid \in NewJournals :
                                journals'[jid].dimensions
                                  = [k \in {DimensionKey} |-> v]}) = 1
             /\ \A jid \in NewJournals :
                   journals'[jid].dimensions = [k \in {DimensionKey} |-> v]
                     => journals'[jid].amount
                          = StatedAccrual(last_call'.arg.accrue, v, MaxDate)]_vars

\* A daily compounded accrual has succeeded over a window in which the
\* rate is 365 on the first day and 0 from the second day on: the journal
\* of north carries the balance of the first day.
DailyAccrualAcrossRateChange ==
    /\ last_call.op = "accrue"
    /\ IsOk(last_call.res)
    /\ last_call.arg.accrue.compounding = Some("Daily")
    /\ last_call.res[2].journals_created = 1
    /\ AsOfRate("usd", 1) = 365
    /\ AsOfRate("usd", 2) = 0
    /\ \E jid \in DOMAIN journals :
          /\ journals[jid].description = "accrual"
          /\ journals[jid].dimensions = [k \in {DimensionKey} |-> "north"]
          /\ journals[jid].amount = 1

\* The dimensions and amounts of the journals of a storage.
JournalAmounts(st) ==
    {<<st.journals[jid].dimensions, st.journals[jid].amount>> :
        jid \in DOMAIN st.journals}

\* C30: the result of an ACCRUE that succeeds, the (dimension value,
\* amount) pairs of the journals and every balance afterwards are the same
\* for every order in which the dimension values are iterated and the
\* journals emitted.
AccrueOrderDoesNotMatter ==
    [][(last_call'.op = "accrue" /\ IsOk(last_call'.res))
        => \A order \in AccrueOrders :
           \A other \in {StatementExecutor_accrue(Storage, ContextDate,
                                                   last_call'.arg.accrue,
                                                   order)} :
              /\ other.res = last_call'.res
              /\ JournalAmounts(other.st) = JournalAmounts(Storage')
              /\ \A a \in AccountIds : \A d \in ReadDates :
                 \A f \in DimensionFilters :
                    get_balance(other.st, a, d, f)
                      = get_balance(Storage', a, d, f)]_vars

\* The amount of the recurrence on the balance of the account without a
\* dimension filter after the days s..d of the window, on the ledger
\* before the statement.
RECURSIVE UndividedAccrual(_, _, _)
UndividedAccrual(accrue, s, d) ==
    IF d < s THEN 0
    ELSE LET a == UndividedAccrual(accrue, s, d - 1)
             pv == get_balance(Storage, accrue.account_id, d, None)[2] + a
             r == AsOfRate(accrue.rate_id, d)
         IN  IF accrue.compounding = Some("Daily")
             THEN a + ((pv * r) \div 365)
             ELSE a + pv * r

\* Every posting of the account dated in [s, e] carries the dimension key.
WindowPostingsCarry(account_id, key, s, e) ==
    \A i \in DOMAIN ledger_accounts[account_id].log :
        LET posting == ledger_accounts[account_id].log[i]
        IN  (s <= posting.date /\ posting.date <= e)
               => key \in DOMAIN posting.dimensions

\* C31: when every posting on the account in the window carries the BY
\* dimension, the amounts of the journals a successful ACCRUE posts sum to
\* the amount of the same recurrence on the undivided balance of the
\* account, within 0.005 per dimension value.
AccrualPartitionSum ==
    [][(/\ last_call'.op = "accrue"
        /\ IsOk(last_call'.res)
        /\ WindowPostingsCarry(last_call'.arg.accrue.account_id,
                               last_call'.arg.accrue.by_dimension,
                               last_call'.arg.accrue.start_date.value.value,
                               last_call'.arg.accrue.end_date.value.value))
        => 200 * Abs(SumMap([jid \in NewJournals |-> journals'[jid].amount])
                       - UndividedAccrual(
                             last_call'.arg.accrue,
                             last_call'.arg.accrue.start_date.value.value,
                             last_call'.arg.accrue.end_date.value.value))
              <= Cardinality(NewJournals)]_vars

\* Whether a posting carries the dimension of the filter f.
Carries(posting, f) ==
    \/ f = None
    \/ /\ f[1][1] \in DOMAIN posting.dimensions
       /\ posting.dimensions[f[1][1]] = f[1][2]

\* The postings of the log dated from..to that carry f, by date and, within
\* a date, in the order of their insertion.
RECURSIVE PostingsInOrder(_, _, _, _)
PostingsInOrder(log, from, to, f) ==
    IF from > to THEN <<>>
    ELSE SelectSeq(log, LAMBDA p : p.date = from /\ Carries(p, f))
            \o PostingsInOrder(log, from + 1, to, f)

\* C32: get_statement(A, from, to, F) has one row per posting on A dated in
\* [from, to] (carrying F when F is given), by date and insertion order,
\* and each running balance is the one before it, at first
\* get_balance(A, prev(from), F), plus the signed amount of the row.
StatementListsEveryPosting ==
    \A a \in DOMAIN ledger_accounts : \A f \in DimensionFilters :
    \A from \in Dates : \A to \in from..MaxDate :
        LET rows == get_statement(Storage, a, Included(from), Included(to), f)[2]
            postings == PostingsInOrder(ledger_accounts[a].log, from, to, f)
            opening == get_balance(Storage, a, from - 1, f)[2]
        IN  /\ Len(rows) = Len(postings)
            /\ \A i \in 1..Len(rows) :
                  /\ rows[i].journal_id = postings[i].journal_id
                  /\ rows[i].date = postings[i].date
                  /\ rows[i].amount = postings[i].amount
                  /\ rows[i].balance
                        = (IF i = 1 THEN opening ELSE rows[i - 1].balance)
                             + rows[i].amount

\* The values of the dimension key carried by the postings of the log
\* dated in [from, to].
ValuesPostedWithin(log, key, from, to) ==
    {log[i].dimensions[key] :
        i \in {j \in DOMAIN log :
                  /\ from <= log[j].date
                  /\ log[j].date <= to
                  /\ key \in DOMAIN log[j].dimensions}}

\* C33: get_dimension_values(A, key, from, to) is the set of the values v
\* such that a posting on A dated in [from, to] belongs to a journal with
\* key = v, in whatever order the journals were inserted.
DimensionValuesAreThoseOfTheWindow ==
    \A a \in DOMAIN ledger_accounts : \A from \in Dates : \A to \in from..MaxDate :
        get_dimension_values(Storage, a, DimensionKey, from, to)
          = Ok(ValuesPostedWithin(ledger_accounts[a].log, DimensionKey, from, to))

\* Whether two results are the same: both Ok with the same DataValue, or
\* the same error.
SameResult(r1, r2) ==
    /\ r1[1] = r2[1]
    /\ IF IsOk(r1)
       THEN r1[2].type = r2[2].type /\ r1[2].value = r2[2].value
       ELSE r1[2] = r2[2]

\* The levels of the operators as stated, from the lowest.
StatedLevel(kind) ==
    CASE kind = "OR" -> 1
      [] kind = "AND" -> 2
      [] kind = "NOT" -> 3
      [] kind = "=" -> 4
      [] kind = "+" -> 5
      [] kind = "*" -> 6
      [] kind = "%" -> 7
      [] kind = "^" -> 8

\* The literal of an operand token.
Operand(token) ==
    IF token.kind = "num" THEN Literal(IntValue(token.n))
    ELSE Literal(Bool(token.kind = "TRUE"))

\* x op1 y op2 z grouped by the stated levels: to the right when op2 binds
\* tighter than op1, to the left otherwise.
StatedGrouping(tokens) ==
    IF StatedLevel(tokens[4].kind) > StatedLevel(tokens[2].kind)
    THEN Binary(InfixName(tokens[2].kind), Operand(tokens[1]),
                Binary(InfixName(tokens[4].kind), Operand(tokens[3]),
                       Operand(tokens[5])))
    ELSE Binary(InfixName(tokens[4].kind),
                Binary(InfixName(tokens[2].kind), Operand(tokens[1]),
                       Operand(tokens[3])),
                Operand(tokens[5]))

\* C34: the operators bind, from the loosest, as OR, AND, NOT, comparison,
\* additive, multiplicative, modulo, exponent: x op1 y op2 z without
\* parentheses is parsed, and evaluated, as x op1 (y op2 z) when op2 binds
\* tighter than op1 and as (x op1 y) op2 z otherwise.
PrecedenceAsStated ==
    /\ (last_call.op = "parse" /\ last_call.arg \in PrecedenceTexts)
          => /\ IsOk(last_call.res)
             /\ last_call.res[2] = StatedGrouping(last_call.arg)
    /\ (last_call.op = "evaluate_expression"
           /\ "tokens" \in DOMAIN last_call.arg
           /\ last_call.arg.tokens \in PrecedenceTexts)
          => SameResult(last_call.res,
                        evaluate_expression(Storage, ContextDate,
                                            StatedGrouping(last_call.arg.tokens)))

\* Whether the evaluation of the expression is a Bool of value b.
IsBool(st, expression, b) ==
    \E v \in {evaluate_expression(st, ContextDate, expression)} :
        /\ IsOk(v)
        /\ v[2].type = "Bool"
        /\ v[2].value = b

\* Whether the evaluation of the expression is a value that is not a Bool.
IsNotBool(st, expression) ==
    \E v \in {evaluate_expression(st, ContextDate, expression)} :
        IsOk(v) /\ v[2].type # "Bool"

\* C35: AND whose left operand is false or is not a Bool yields Bool(false)
\* and OR whose left operand is true yields Bool(true), whatever the right
\* operand is: the right operand is not evaluated and an error it would
\* raise is not raised.
ShortCircuitAsStated ==
    (last_call.op = "evaluate_expression"
        /\ last_call.arg.expression.expr = "Binary")
      => /\ (/\ last_call.arg.expression.name = "And"
             /\ \/ IsBool(Storage, last_call.arg.expression.args[1], FALSE)
                \/ IsNotBool(Storage, last_call.arg.expression.args[1]))
               => Yields(last_call.res, Bool(FALSE))
         /\ (/\ last_call.arg.expression.name = "Or"
             /\ IsBool(Storage, last_call.arg.expression.args[1], TRUE))
               => Yields(last_call.res, Bool(TRUE))

\* An AND whose left operand is not a Bool and whose right operand fails
\* with a storage error has yielded Bool(false).
AndSkippedAFailingOperand ==
    /\ last_call.op = "evaluate_expression"
    /\ last_call.arg.expression.name = "And"
    /\ IsNotBool(Storage, last_call.arg.expression.args[1])
    /\ evaluate_expression(Storage, ContextDate,
                           last_call.arg.expression.args[2])
          = Err("AccountNotFound")
    /\ Yields(last_call.res, Bool(FALSE))

\* Whether the text YYYY-MM-DD names a day of the calendar.
ValidCalendarDate(tokens) ==
    /\ tokens[3].n \in 1..12
    /\ tokens[5].n \in 1..DaysInMonth(tokens[1].n, tokens[3].n)

\* C36: a text YYYY-MM-DD that is not a date of the calendar (month 00,
\* day 00, a day after the last of the month) makes parse return a parse
\* error: it neither crashes nor returns a statement.
InvalidDateIsAParseError ==
    (/\ last_call.op = "parse"
     /\ last_call.arg \in DateTexts
     /\ ~ValidCalendarDate(last_call.arg))
      => /\ IsErr(last_call.res)
         /\ last_call.res[2] = "ParseError"

\* C37: x * p% is parsed as the product of x and the Percentage p, and the
\* product of an Int or Money x and a Percentage p evaluates to x * p / 100.
PercentageIsAMultiplier ==
    /\ (last_call.op = "parse" /\ last_call.arg \in PercentageTexts)
          => /\ IsOk(last_call.res)
             /\ last_call.res[2].name = "Multiply"
             /\ last_call.res[2].args[2].value.type = "Percentage"
    /\ (/\ last_call.op = "evaluate_expression"
        /\ last_call.arg.expression.name = "Multiply"
        /\ last_call.arg.expression.args[2].value.type = "Percentage")
          => /\ IsOk(last_call.res)
             /\ last_call.res[2].type # "Null"
             /\ last_call.res[2].value
                   = DecimalDiv(last_call.arg.expression.args[1].value.value
                                   * last_call.arg.expression.args[2].value.value,
                                100)

\* The accounts of type Income or Expense whose balance at `to` differs
\* from their balance at `from`.
ChangedAccounts(from, to) ==
    {a \in DOMAIN ledger_accounts :
        /\ ledger_accounts[a].account_type \in {"Income", "Expense"}
        /\ get_balance(Storage, a, to, None)[2]
              # get_balance(Storage, a, from, None)[2]}

\* The sum over the accounts in S of balance(to) - balance(from).
RECURSIVE ChangeSum(_, _, _)
ChangeSum(S, from, to) ==
    IF S = {} THEN 0
    ELSE LET a == CHOOSE x \in S : TRUE
         IN  get_balance(Storage, a, to, None)[2]
               - get_balance(Storage, a, from, None)[2]
               + ChangeSum(S \ {a}, from, to)

\* C38: income_statement(from, to) has one item per Income or Expense
\* account whose balance(to) - balance(from) is not zero, with that
\* change, and no item of another account; its last item, and no other, is
\* NET_INCOME, with the sum of the changes of the Income accounts minus
\* the sum of the changes of the Expense accounts.
IncomeStatementAsStated ==
    (last_call.op = "evaluate_expression"
        /\ last_call.arg.expression.name = "income_statement")
      => LET from == last_call.arg.expression.args[1]
             to == last_call.arg.expression.args[2]
             items == last_call.res[2].value
             n == Len(items)
         IN  /\ IsOk(last_call.res)
             /\ n = Cardinality(ChangedAccounts(from, to)) + 1
             /\ \A a \in ChangedAccounts(from, to) :
                   \E i \in 1..(n - 1) :
                      /\ items[i].account_id = a
                      /\ items[i].account_type = ledger_accounts[a].account_type
                      /\ items[i].balance
                            = get_balance(Storage, a, to, None)[2]
                                - get_balance(Storage, a, from, None)[2]
             /\ \A i \in 1..(n - 1) : items[i].account_id # "NET_INCOME"
             /\ items[n].account_id = "NET_INCOME"
             /\ items[n].balance
                   = ChangeSum({a \in ChangedAccounts(from, to) :
                                   ledger_accounts[a].account_type = "Income"},
                               from, to)
                       - ChangeSum({a \in ChangedAccounts(from, to) :
                                       ledger_accounts[a].account_type = "Expense"},
                                   from, to)

\* An income statement over an Income and an Expense account that both
\* changed between the two dates, the net income being their difference.
IncomeStatementOfTwoAccounts ==
    /\ last_call.op = "evaluate_expression"
    /\ last_call.arg.expression.name = "income_statement"
    /\ IsOk(last_call.res)
    /\ Len(last_call.res[2].value) = 3
    /\ last_call.res[2].value[1].account_type = "Expense"
    /\ last_call.res[2].value[2].account_type = "Income"
    /\ last_call.arg.expression.args[1] < last_call.arg.expression.args[2]
    /\ last_call.res[2].value[1].balance = 1
    /\ last_call.res[2].value[2].balance = 1
    /\ last_call.res[2].value[3].balance = 0

\* C39: executing a GET, whether it succeeds or fails and whichever of
\* balance, statement, trial_balance, income_statement, account_count,
\* fx_rate and convert it calls, leaves the accounts with their postings,
\* the rate curves, the journal headers, the sequence counter and the
\* snapshots of the transactions as they were, and a GET that succeeds
\* returns journals_created = 0.
GetIsReadOnly ==
    /\ []((last_call.op = "execute" /\ last_call.arg.kind = "Get"
              /\ IsOk(last_call.res))
            => last_call.res[2].journals_created = 0)
    /\ [][(last_call'.op = "execute" /\ last_call'.arg.kind = "Get")
            => UNCHANGED storage_vars]_storage_vars

\* A GET that called all seven functions and succeeded, on a storage with
\* postings, a rate and the snapshot of an active transaction.
GetOfEveryFunctionSucceeded ==
    /\ last_call.op = "execute"
    /\ last_call.arg.kind = "Get"
    /\ Len(last_call.arg.body.elements) = 7
    /\ IsOk(last_call.res)
    /\ DOMAIN last_call.res[2].variables = {"b", "s", "t", "i", "n", "r", "c"}
    /\ last_call.res[2].variables["b"].value # 0
    /\ Len(last_call.res[2].variables["s"].value) = 1
    /\ DOMAIN snapshots # {}
    /\ DOMAIN journals # {}

====
